---- MODULE Spec2Model ----
(***************************************************************************)
(* Ballot Buddy front end: the ballot wizard (VotingPage), the route guard *)
(* (ProtectedRoute, AccountDeactivated), the API client's response         *)
(* interceptor, the login and OTP pages and the officer's and the          *)
(* administrator's dashboards, as state machines over the browser's local  *)
(* storage, the router's location and each page's component state.         *)
(***************************************************************************)
EXTENDS Integers, Sequences, FiniteSets, TLC

\* ------------------------------------------------------------------ bounds
MaxPositions == 2      \* positions on a ballot the backend may return
MaxCands == 1          \* approved candidates per position, in the runs of the whole page
MaxToggleCands == 2    \* approved candidates per position, in the runs of the selection clicks
MaxTimers == 1         \* pending redirect timers of VotingPage told apart
MaxResponses == 3      \* API error responses answered during one run of the guard
MaxMutations == 2      \* approve and reject requests an officer sends between two page loads
MaxAdminRequests == 1  \* mutating requests an administrator sends between two page loads
TickSeconds == 5       \* the seconds that pass in one step of the clock
MaxClock == 45         \* the seconds the clock runs for

\* ------------------------------------------------------------------ values
Null == "<null>"              \* localStorage.getItem of a missing key, or a null state
Undefined == "<undefined>"    \* a property that is not there
EmptyString == ""

\* What a localStorage entry under 'user' can hold, as text.
NoItem == [item |-> "null"]
EmptyItem == [item |-> "empty"]
GarbageItem == [item |-> "garbage"]                       \* text that is not JSON
JsonItem(v) == [item |-> "json", value |-> v]             \* JSON.stringify(v)

\* The welcome record a login writes, JSON.stringify({message, timestamp}). The
\* timestamp is told as the set of the numbers the property holds: none when the
\* property is missing. Times are in seconds.
WelcomeRecord(t) == [type |-> "object", message |-> "Welcome back", timestamp |-> {t}]
RecentWindow == 30        \* Date.now() - welcome.timestamp < 30000
AutoRemoveDelay == 10     \* setTimeout(..., 10000)

Roles == {"ADMIN", "OFFICER", "CANDIDATE"}
UserObjects ==
    [type : {"object"}, role : Roles \cup {"VOTER", Undefined},
     status : {"ACTIVE", "INACTIVE", Undefined}]
JsonValues == UserObjects \cup {[type |-> "null"], [type |-> "string"]}
UserItems == {NoItem, EmptyItem, GarbageItem} \cup {JsonItem(v) : v \in JsonValues}
TokenItems == {Null, EmptyString, "jwt"}

\* JavaScript truthiness of a string-or-null value.
Truthy(s) == s # Null /\ s # Undefined /\ s # EmptyString
TruthyItem(i) == i.item \notin {"null", "empty"}

\* JSON.parse: throws on text that is not JSON, else gives the value.
JSONParse(i) ==
    IF i.item = "json" THEN [threw |-> FALSE, value |-> i.value]
    ELSE [threw |-> TRUE, value |-> [type |-> "none"]]

\* Reading a property of a parsed value: null throws a TypeError, a string has
\* no such property, an object gives whatever it holds.
PropThrows(v) == v.type = "null"
Prop(v, name) ==
    IF v.type # "object" THEN Undefined
    ELSE IF name = "role" THEN v.role ELSE v.status

\* ------------------------------------------------------------------ state
VARIABLES
    path,            \* the router's location (window.location.pathname)
    view,            \* what the router has rendered for path
    hops,            \* <Navigate> redirects followed since the last visit
    arrival,         \* how the current location was reached
    localStorage,    \* the browser's local storage: token, user, ballotToken
    navState,        \* location.state.ballotToken carried by navigate()
    loginTimers,     \* pending setTimeout(() => window.location.href = '/login')
    lastResult,      \* what the last API call gave its caller
    answered,        \* API error responses answered so far
    ballotToken,     \* VotingPage state
    loading,
    submitting,
    ballotData,
    votes,
    currentStep,
    inFlight,        \* requests of VotingPage awaiting their response
    sent,            \* the request the last step sent through the API client
    verifyTimers,    \* pending setTimeout(() => navigate('/verify'), 2000)
    toast,           \* the toast the last step showed
    dialog,          \* what the last click on Submit Vote met: the confirm() answer
    toggled,         \* the handleVoteChange calls made in succession with the same arguments
    loginError,      \* the login pages' error state (setError)
    pageLoading,     \* the loading state of the login and OTP pages
    loginType,       \* UnifiedLoginPage: the tab shown
    regNo,           \* VoterOTPPage: the registration number taken from location.state
    formErrors,      \* what the last submit's schema validation reported
    nominations,     \* OfficerDashboard state: the list displayed
    dashLoading,     \* the loading state of the mounted dashboard
    processing,      \* OfficerDashboard state
    rejectReason,
    showRejectForm,
    officers,        \* AdminDashboard state: the officers listed
    stats,           \* AdminDashboard state: the figures of the four cards
    fetches,         \* calls of fetchNominations / loadData since the page was loaded
    shownFetch,      \* the call whose answer the displayed list is
    mutations,       \* mutating requests sent since the page was loaded
    backend,         \* the server's data: the nominations' status, the changes applied
    now,             \* Date.now(), in units of TimeUnit milliseconds
    welcomeMessage,  \* the welcomeMessage state of the mounted dashboard: the banner's text
    welcomeTimers,   \* the due times of the pending setTimeout(..., 10000) of the banners
    served,          \* the static file server: the last request and what it was answered
    step,            \* ResetPasswordPage state
    resetEmail,      \* its email state
    resetToken,
    importModal      \* ImportVotersModal: isOpen, its state, and the file input's files

routerVars == <<path, view, hops, arrival, navState>>
apiVars == <<loginTimers, lastResult, answered>>
pageVars == <<ballotToken, loading, submitting, ballotData, votes, currentStep>>
netVars == <<inFlight, sent, verifyTimers, toast, dialog, toggled>>
loginVars == <<loginError, pageLoading, loginType, regNo, formErrors>>
dashState == <<nominations, dashLoading, processing, rejectReason, showRejectForm,
               officers, stats, fetches, shownFetch, mutations>>
welcomeVars == <<now, welcomeMessage, welcomeTimers>>
resetVars == <<step, resetEmail, resetToken>>
dashVars == <<dashState, backend, welcomeVars, served, resetVars, importModal>>
vars == <<routerVars, localStorage, apiVars, pageVars, netVars, loginVars, dashVars>>

\* ------------------------------------------------------------------ API client
\* error.response.data.error texts the backend answers with, and the
\* substrings String.prototype.includes finds in each.
Substrings(msg) ==
    CASE msg = "Token expired" -> {"Token expired"}
      [] msg = "Invalid token" -> {"Invalid token"}
      [] msg = "Invalid or inactive user" -> {"Invalid or inactive user", "inactive"}
      [] msg = "Account deactivated" -> {"deactivated"}
      [] msg = "Account is inactive" -> {"inactive"}
      [] msg = "Ballot token already used" -> {"already used"}
      [] msg = "Positions not open for voting" -> {"not open for voting"}
      [] msg = "Candidate not found" -> {"not found"}
      [] msg = "User not found" -> {"not found"}
      [] msg = "Candidate has votes" -> {"has votes"}
      [] OTHER -> {}
Includes(msg, sub) == sub \in Substrings(msg)

NoResponse == 0     \* a rejection that carries no HTTP response
Rejection(status, msg, closed) ==
    [status |-> status, error |-> msg, closedPositions |-> closed]
\* new Error('Your session has expired. Please log in again.'): no response on it
SessionExpiredError == Rejection(NoResponse, Undefined, 0)

\* The interceptor with the user record left in storage on a 401.
ResponseInterceptorKeepsUser(storage, error) ==
    LET errorMessage == IF Truthy(error.error) THEN error.error ELSE EmptyString
        cleared == [storage EXCEPT !.token = Null]
    IN  IF error.status = 401
        THEN IF \/ Includes(errorMessage, "Invalid or inactive user")
                \/ Includes(errorMessage, "Invalid token")
                \/ Includes(errorMessage, "Token expired")
             THEN [storage |-> cleared, timer |-> 1, rejection |-> SessionExpiredError,
                   rejected |-> TRUE]
             ELSE IF \/ Includes(errorMessage, "inactive")
                     \/ Includes(errorMessage, "deactivated")
             THEN [storage |-> cleared, timer |-> 0, rejection |-> error, rejected |-> TRUE]
             ELSE [storage |-> cleared, timer |-> 1, rejection |-> error, rejected |-> TRUE]
        ELSE [storage |-> storage, timer |-> 0, rejection |-> error, rejected |-> TRUE]

\* The interceptor with the session left in storage when the token has expired.
ResponseInterceptorKeepsSession(storage, error) ==
    LET errorMessage == IF Truthy(error.error) THEN error.error ELSE EmptyString
        cleared == [storage EXCEPT !.token = Null, !.user = NoItem]
    IN  IF error.status = 401
        THEN IF \/ Includes(errorMessage, "Invalid or inactive user")
                \/ Includes(errorMessage, "Invalid token")
                \/ Includes(errorMessage, "Token expired")
             THEN [storage |-> storage, timer |-> 1, rejection |-> SessionExpiredError,
                   rejected |-> TRUE]
             ELSE IF \/ Includes(errorMessage, "inactive")
                     \/ Includes(errorMessage, "deactivated")
             THEN [storage |-> cleared, timer |-> 0, rejection |-> error, rejected |-> TRUE]
             ELSE [storage |-> cleared, timer |-> 1, rejection |-> error, rejected |-> TRUE]
        ELSE [storage |-> storage, timer |-> 0, rejection |-> error, rejected |-> TRUE]

\* api.interceptors.response, the error handler: what it does to local storage,
\* whether it arms the redirect timer, and what the caller's promise rejects with.
ResponseInterceptor(storage, error) ==
    LET errorMessage == IF Truthy(error.error) THEN error.error ELSE EmptyString
        cleared == [storage EXCEPT !.token = Null, !.user = NoItem]
    IN  IF error.status = 401
        THEN IF \/ Includes(errorMessage, "Invalid or inactive user")
                \/ Includes(errorMessage, "Invalid token")
                \/ Includes(errorMessage, "Token expired")
             THEN [storage |-> cleared, timer |-> 1, rejection |-> SessionExpiredError,
                   rejected |-> TRUE]
             ELSE IF \/ Includes(errorMessage, "inactive")
                     \/ Includes(errorMessage, "deactivated")
             THEN [storage |-> cleared, timer |-> 0, rejection |-> error, rejected |-> TRUE]
             ELSE [storage |-> cleared, timer |-> 1, rejection |-> error, rejected |-> TRUE]
        ELSE [storage |-> storage, timer |-> 0, rejection |-> error, rejected |-> TRUE]

\* A call as an API function hands it to axios: the method of api.get, api.post,
\* ..., the names of the query parameters, no Authorization header, no _t.
Call(api, method, params) ==
    [api |-> api, method |-> method, params |-> params, Authorization |-> << >>,
     stamp |-> << >>]
ApiCalls ==
    {Call("vote.getBallot", "get", {"token"}), Call("vote.cast", "post", {}),
     Call("users.delete", "delete", {})}

\* The request interceptor with the header set whatever local storage holds.
RequestInterceptorAlwaysBearer(storage, config, t) ==
    [config EXCEPT !.Authorization = <<"Bearer", storage.token>>,
                   !.params = IF config.method = "get" THEN @ \cup {"_t"} ELSE @,
                   !.stamp = IF config.method = "get" THEN <<t>> ELSE @]

\* api.interceptors.request at time t: the config it returns. The header is told
\* as the words of its value, the _t parameter as its name among the parameters
\* and its value in stamp.
RequestInterceptor(storage, config, t) ==
    LET token == storage.token
    IN  [config EXCEPT !.Authorization = IF Truthy(token) THEN <<"Bearer", token>> ELSE @,
                       !.params = IF config.method = "get" THEN @ \cup {"_t"} ELSE @,
                       !.stamp = IF config.method = "get" THEN <<t>> ELSE @]

\* ------------------------------------------------------------------ static file server
\* A request path and a file's path under dist are sequences of characters.
Root == <<"/">>
IndexHtml == <<"/", "i", "n", "d", "e", "x", ".", "h", "t", "m", "l">>
AppJs == <<"/", "a", "s", "s", "e", "t", "s", "/", "a", ".", "j", "s">>
Favicon == <<"/", "f", ".", "i", "c", "o">>
ApiPrefix == <<"/", "a", "p", "i">>
\* The build output: index.html, and whichever other files the build produced.
Dists == {files \in SUBSET {IndexHtml, AppJs, Favicon} : IndexHtml \in files}
RequestPaths ==
    {Root, IndexHtml, AppJs, Favicon, ApiPrefix, ApiPrefix \o <<"/", "u">>,
     ApiPrefix \o <<"s">>, <<"/", "A", "P", "I">>, <<"/", "v", "o", "t", "e">>,
     <<"/", "a", "p">>}
Requests == [method : {"GET", "HEAD", "POST"}, path : RequestPaths]

\* startsWith asking for the whole text to be the prefix.
StartsWithWhole(text, prefix) == text = prefix
\* String.prototype.startsWith
StartsWith(text, prefix) ==
    Len(text) >= Len(prefix) /\ SubSeq(text, 1, Len(prefix)) = prefix

FileResponse(file) == [status |-> 200, kind |-> "file", file |-> file, error |-> ""]
JsonResponse(status, error) ==
    [status |-> status, kind |-> "json", file |-> << >>, error |-> error]
NoRequestYet == [method |-> "none", path |-> << >>]
NothingServed ==
    [dist |-> {}, request |-> NoRequestYet, by |-> "none", response |-> JsonResponse(0, "")]

\* express.static(dist): a GET or HEAD whose path names a file of the build is
\* answered with the file, the path / with the directory's index.html; any other
\* request is passed on.
Static(files, req) ==
    LET file == IF req.path = Root THEN IndexHtml ELSE req.path
    IN  IF req.method \in {"GET", "HEAD"} /\ file \in files
        THEN [handled |-> TRUE, response |-> FileResponse(file)]
        ELSE [handled |-> FALSE, response |-> JsonResponse(0, "")]

\* The catch-all middleware after it.
SpaFallback(req) ==
    IF StartsWith(req.path, ApiPrefix)
    THEN JsonResponse(404, "API route not found")
    ELSE FileResponse(IndexHtml)

\* The server answers a request, the build directory holding files.
HandleRequest(req, files) ==
    /\ LET static == Static(files, req)
       IN  served' = [dist |-> files, request |-> req,
                      by |-> IF static.handled THEN "static" ELSE "fallback",
                      response |-> IF static.handled THEN static.response
                                   ELSE SpaFallback(req)]
    /\ UNCHANGED <<routerVars, localStorage, apiVars, pageVars, netVars, loginVars,
                   dashState, backend, welcomeVars, resetVars, importModal>>

\* ------------------------------------------------------------------ route guard
ProtectedPaths ==
    {"/admin/dashboard", "/admin/reports", "/officer/dashboard", "/candidate/dashboard"}
PublicPaths == {"/", "/login"}

\* App: the requiredRole each protected <Route> passes to ProtectedRoute.
RequiredRole(p) ==
    CASE p = "/admin/dashboard" -> "ADMIN"
      [] p = "/admin/reports" -> "ADMIN"
      [] p = "/officer/dashboard" -> "OFFICER"
      [] p = "/candidate/dashboard" -> "CANDIDATE"
      [] OTHER -> Undefined

Navigate(to, storage) == [element |-> "Navigate", to |-> to, storage |-> storage]
Render(element, storage) == [element |-> element, to |-> Undefined, storage |-> storage]

\* OwnDashboard with the officer sent to the administrator's dashboard.
OwnDashboardSwapped(role) ==
    IF role = "ADMIN" THEN "/admin/dashboard"
    ELSE IF role = "OFFICER" THEN "/admin/dashboard"
    ELSE IF role = "CANDIDATE" THEN "/candidate/dashboard"
    ELSE "/login"

\* ProtectedRoute's redirect for a role that is not the required one.
OwnDashboard(role) ==
    IF role = "ADMIN" THEN "/admin/dashboard"
    ELSE IF role = "OFFICER" THEN "/officer/dashboard"
    ELSE IF role = "CANDIDATE" THEN "/candidate/dashboard"
    ELSE "/login"

\* SessionAbsent asking for both entries to be missing.
SessionAbsentBoth(token, userStr) == ~Truthy(token) /\ ~TruthyItem(userStr)

\* ProtectedRoute's first test: !token || !userStr.
SessionAbsent(token, userStr) == ~Truthy(token) \/ ~TruthyItem(userStr)

\* removeItem('token'); removeItem('user')
RemoveSession(storage) == [storage EXCEPT !.token = Null, !.user = NoItem]

\* InactiveOutcome with no notice for officers: every inactive user is logged out.
InactiveOutcomeAlwaysLogin(storage, user) == Navigate("/login", RemoveSession(storage))

\* ProtectedRoute for a user whose status is INACTIVE.
InactiveOutcome(storage, user) ==
    IF Prop(user, "role") = "OFFICER"
    THEN Render("AccountDeactivated", storage)
    ELSE Navigate("/login", RemoveSession(storage))

\* ProtectedRoute: the element it returns and the local storage it leaves.
ProtectedRoute(storage, requiredRole) ==
    LET token == storage.token
        userStr == storage.user
        parsed == JSONParse(userStr)
        user == parsed.value
    IN  IF SessionAbsent(token, userStr)
        THEN Navigate("/login", storage)
        ELSE IF parsed.threw \/ PropThrows(user)
        THEN Navigate("/login", RemoveSession(storage))                \* catch
        ELSE IF Prop(user, "status") = "INACTIVE"
        THEN InactiveOutcome(storage, user)
        ELSE IF Truthy(requiredRole) /\ Prop(user, "role") # requiredRole
        THEN Navigate(OwnDashboard(Prop(user, "role")), storage)
        ELSE Render("children", storage)

idleVoting == <<pageVars, netVars, navState>>

\* ballotData = null: nothing loaded.
NoBallot == [loaded |-> FALSE, positions |-> << >>, candidates |-> {}]
NoRequest == [api |-> "none", token |-> Null, votes |-> {}]
NoToggle == [n |-> 0, positionId |-> 0, candidateId |-> <<0, 0>>, before |-> << >>]

\* FreshPage with the selection map surviving the unmount.
FreshPageKeepsVotes ==
    /\ ballotToken' = EmptyString
    /\ loading' = TRUE
    /\ submitting' = FALSE
    /\ ballotData' = NoBallot
    /\ votes' = votes
    /\ currentStep' = 0

\* VotingPage's useState initial values; also what is left of them after unmount.
FreshPage ==
    /\ ballotToken' = EmptyString
    /\ loading' = TRUE
    /\ submitting' = FALSE
    /\ ballotData' = NoBallot
    /\ votes' = << >>
    /\ currentStep' = 0

\* The nominations the backend holds, each SUBMITTED until an officer decides.
NominationIds == {"n1", "n2"}
InitBackend == [nominations |-> [id \in NominationIds |-> "SUBMITTED"], changes |-> 0]
NoList == {}                  \* useState([]): an empty list
ZeroStats == 0                \* the four figures all 0

\* A File is its name, a sequence of characters, and its MIME type; a file or
\* null, and the files of the file input, are a list of at most one File.
NoFiles == << >>
DotCsv == <<".", "c", "s", "v">>
FileNames == {<<"a">> \o DotCsv, <<"a", ".", "t", "x", "t">>, <<"c", "s", "v">>}
FileTypes == {"text/csv", "text/plain", ""}
Files == [name : FileNames, type : FileTypes]
FileLists == {NoFiles} \cup {<<f>> : f \in Files}
\* The useState initial values of ImportVotersModal, the modal not shown.
ClosedImportModal ==
    [isOpen |-> FALSE, loading |-> FALSE, file |-> NoFiles, showDeleteConfirm |-> FALSE,
     deleting |-> FALSE, input |-> NoFiles]

\* The useState initial values of OfficerDashboard and AdminDashboard, which is
\* also what a page shows while neither is mounted. A reason that was never
\* typed reads as undefined, which every test of the code treats as ''.
FreshDashboard ==
    /\ nominations' = NoList
    /\ dashLoading' = FALSE
    /\ processing' = Null
    /\ rejectReason' = [id \in NominationIds |-> EmptyString]
    /\ showRejectForm' = Null
    /\ officers' = NoList
    /\ stats' = ZeroStats
    /\ fetches' = 0
    /\ shownFetch' = 0
    /\ mutations' = 0
    /\ welcomeMessage' = Null
    /\ importModal' = ClosedImportModal
InitDashboard ==
    /\ nominations = NoList
    /\ dashLoading = FALSE
    /\ processing = Null
    /\ rejectReason = [id \in NominationIds |-> EmptyString]
    /\ showRejectForm = Null
    /\ officers = NoList
    /\ stats = ZeroStats
    /\ fetches = 0
    /\ shownFetch = 0
    /\ mutations = 0
    /\ backend = InitBackend
    /\ now = 0
    /\ welcomeMessage = Null
    /\ welcomeTimers = {}
    /\ served = NothingServed
    /\ step = "otp"
    /\ resetEmail = EmptyString
    /\ resetToken = EmptyString
    /\ importModal = ClosedImportModal

\* The useState initial values of ResetPasswordPage.
FreshReset ==
    /\ step' = "otp"
    /\ resetEmail' = EmptyString
    /\ resetToken' = EmptyString

\* The useState initial values of HomePage, UnifiedLoginPage and VoterOTPPage;
\* also what is left of them after unmount.
FreshLogin ==
    /\ loginError' = EmptyString
    /\ pageLoading' = FALSE
    /\ loginType' = "user"
    /\ regNo' = EmptyString
    /\ formErrors' = "none"

\* A step that is no click on Submit Vote or on a candidate, and sends nothing.
NoHistory ==
    /\ dialog' = "none"
    /\ toggled' = NoToggle
    /\ sent' = NoRequest
Quiet ==
    /\ NoHistory
    /\ toast' = "none"

\* The router has rendered the current location: a render runs to its end before
\* the next event, timer or response is handled.
Rendered == view # "pending"

\* A full page load, which drops the page's timers and the requests it was
\* waiting for.
PageLoad(p, how) ==
    /\ Rendered
    /\ path' = p
    /\ view' = "pending"
    /\ hops' = 0
    /\ arrival' = how
    /\ navState' = Null
    /\ loginTimers' = 0
    /\ verifyTimers' = 0
    /\ inFlight' = {}
    /\ FreshPage
    /\ FreshLogin
    /\ FreshDashboard
    /\ FreshReset
    /\ welcomeTimers' = {}
    /\ Quiet
    /\ UNCHANGED <<localStorage, lastResult, answered, backend, now, served>>

\* The user opens a URL.
Visit(p) == PageLoad(p, "opened")

\* The router renders the route of the current location.
RouteRender ==
    /\ view = "pending"
    /\ path \in ProtectedPaths \cup PublicPaths
    /\ IF path \in ProtectedPaths
       THEN LET r == ProtectedRoute(localStorage, RequiredRole(path))
            IN  /\ localStorage' = r.storage
                /\ IF r.element = "Navigate"
                   THEN /\ path' = r.to
                        /\ view' = "pending"
                        /\ hops' = hops + 1
                        /\ arrival' = "redirected"
                   ELSE /\ view' = r.element
                        /\ UNCHANGED <<path, hops, arrival>>
       ELSE /\ view' = "public"
            /\ UNCHANGED <<path, hops, arrival, localStorage>>
    /\ UNCHANGED <<loginVars, dashVars>>
    /\ UNCHANGED <<apiVars, idleVoting>>

\* AccountDeactivated.handleLogout: the 'Return to Login' button.
DeactivatedLogout ==
    /\ view = "AccountDeactivated"
    /\ localStorage' = [localStorage EXCEPT !.token = Null, !.user = NoItem]
    /\ path' = "/login"
    /\ view' = "pending"
    /\ hops' = 0
    /\ arrival' = "logout"
    /\ loginTimers' = 0
    /\ UNCHANGED <<loginVars, dashVars>>
    /\ UNCHANGED <<lastResult, answered, idleVoting>>

\* Error responses the backend gives to a call of a rendered page.
GuardErrors ==
    {Rejection(401, m, 0) :
        m \in {"Token expired", "Invalid token", "Invalid or inactive user",
               "Account deactivated", "Account is inactive", "Unauthorized",
               Undefined}}
    \cup {Rejection(403, "Forbidden", 0), Rejection(500, "Server error", 0)}

\* An API call made by the rendered page (a dashboard, the login form) is answered
\* with an error.
ApiError(error) ==
    /\ view \in {"children", "public"}
    /\ answered < MaxResponses
    /\ LET r == ResponseInterceptor(localStorage, error)
       IN  /\ localStorage' = r.storage
           /\ loginTimers' = IF r.timer = 1 THEN 1 ELSE loginTimers
           /\ lastResult' = [error |-> error, rejection |-> r.rejection,
                              rejected |-> r.rejected]
    /\ answered' = answered + 1
    /\ UNCHANGED <<loginVars, dashVars>>
    /\ UNCHANGED <<path, view, hops, arrival, idleVoting>>

\* The interceptor's timer fires: window.location.href = '/login'.
LoginTimerFires ==
    /\ loginTimers > 0
    /\ PageLoad("/login", "timer")

\* No API call has been answered yet.
NoResult ==
    [error |-> Rejection(NoResponse, Undefined, 0),
     rejection |-> Rejection(NoResponse, Undefined, 0), rejected |-> FALSE]

InitVoting ==
    /\ navState = Null
    /\ ballotToken = EmptyString
    /\ loading = TRUE
    /\ submitting = FALSE
    /\ ballotData = NoBallot
    /\ votes = << >>
    /\ currentStep = 0
    /\ inFlight = {}
    /\ sent = NoRequest
    /\ verifyTimers = 0
    /\ toast = "none"
    /\ dialog = "none"
    /\ toggled = NoToggle
    /\ loginError = EmptyString
    /\ pageLoading = FALSE
    /\ loginType = "user"
    /\ regNo = EmptyString
    /\ formErrors = "none"
    /\ InitDashboard

InitGuard ==
    /\ path \in ProtectedPaths \cup PublicPaths
    /\ view = "pending"
    /\ hops = 0
    /\ arrival = "opened"
    /\ localStorage \in [token : TokenItems, user : UserItems, ballotToken : {Null},
                         welcomeMessage : {NoItem}]
    /\ loginTimers = 0
    /\ lastResult = NoResult
    /\ answered = 0
    /\ InitVoting

NextGuard ==
    \/ \E p \in ProtectedPaths \cup PublicPaths : Visit(p)
    \/ RouteRender
    \/ DeactivatedLogout
    \/ \E e \in GuardErrors : ApiError(e)
    \/ LoginTimerFires

SpecGuard == InitGuard /\ [][NextGuard]_vars

\* ------------------------------------------------------------------ ballot wizard
BallotTokens == {"bt1"}

\* localStorage.setItem stores the text of what it is given.
StoredText(v) == IF v = Undefined THEN "undefined" ELSE v

\* The ballots the backend may answer getBallot with: positions 1..n, and for
\* each position some number of approved candidates (possibly none).
CandId(p, k) == <<p, k>>
Ballot(n, count, most) ==
    [loaded |-> TRUE,
     positions |-> [i \in 1..n |-> i],
     candidates |->
        {[id |-> CandId(q[1], q[2]), position |-> q[1]] :
            q \in {x \in (1..n) \X (1..most) : x[2] <= count[x[1]]}}]
BallotsUpTo(most) ==
    UNION {{Ballot(n, count, most) : count \in [1..n -> 0..most]} : n \in 0..MaxPositions}
Ballots == BallotsUpTo(MaxCands)

\* votes[positionId], as a truth value.
HasVote(v, positionId) == positionId \in DOMAIN v

\* handleVoteChange without its toggle branch: a click always selects.
handleVoteChangeAlwaysSets(v, positionId, candidateId) ==
    [q \in DOMAIN v \cup {positionId} |->
        IF q = positionId THEN candidateId ELSE v[q]]

\* VotingPage.handleVoteChange: the selection map it sets.
handleVoteChange(v, positionId, candidateId) ==
    IF HasVote(v, positionId) /\ v[positionId] = candidateId
    THEN [q \in DOMAIN v \ {positionId} |-> v[q]]
    ELSE [q \in DOMAIN v \cup {positionId} |->
            IF q = positionId THEN candidateId ELSE v[q]]

votedCount == Cardinality(DOMAIN votes)
totalPositions == Len(ballotData.positions)
currentPosition == ballotData.positions[currentStep + 1]
positionCandidates ==
    {c \in ballotData.candidates : c.position = currentPosition}

\* The wizard is what VotingPage renders (not the spinner, not 'No Active Elections').
WizardShown ==
    /\ view = "VotingPage"
    /\ ~loading
    /\ ballotData.loaded
    /\ Len(ballotData.positions) > 0
NoElectionsShown ==
    /\ view = "VotingPage"
    /\ ~loading
    /\ (~ballotData.loaded \/ Len(ballotData.positions) = 0)

\* The Submit Vote button disabled on the count alone, not while submitting.
SubmitDisabledIgnoresSubmitting == votedCount # totalPositions

\* The Submit Vote button disabled while submitting only, whatever the count.
SubmitDisabledWhileSubmitting == submitting

\* The Submit Vote button's disabled prop, and the Next Position button's.
SubmitDisabled == submitting \/ votedCount # totalPositions
NextDisabled == ~HasVote(votes, currentPosition)

\* Which of the two buttons is rendered at the right of the navigation row.
NextRendered == currentStep < totalPositions /\ currentStep < totalPositions - 1
SubmitRendered == currentStep < totalPositions /\ ~(currentStep < totalPositions - 1)

\* Leaving VotingPage by navigate('/verify'): the component unmounts, and the
\* requests it awaits are answered to a component that is gone.
Stale(reqs) == {[r EXCEPT !.live = FALSE] : r \in reqs}
NavigateVerify(reqs) ==
    /\ path' = "/verify"
    /\ view' = "pending"
    /\ arrival' = "navigated"
    /\ navState' = Null
    /\ inFlight' = Stale(reqs)
    /\ FreshPage

idleGuard == <<hops, lastResult, answered>>

\* VotingPage mounts: its state is initialised and its effect runs.
VotingPageMount ==
    /\ path = "/vote"
    /\ view = "pending"
    /\ LET token == IF Truthy(navState) THEN navState ELSE localStorage.ballotToken
       IN  IF ~Truthy(token)
           THEN /\ toast' = "No ballot token found"
                /\ sent' = NoRequest
                /\ NavigateVerify(inFlight)
           ELSE /\ view' = "VotingPage"
                /\ ballotToken' = token
                /\ loading' = TRUE
                /\ submitting' = FALSE
                /\ ballotData' = NoBallot
                /\ votes' = << >>
                /\ currentStep' = 0
                /\ inFlight' = inFlight \cup {[kind |-> "load", live |-> TRUE]}
                /\ sent' = [api |-> "getBallot", token |-> token, votes |-> {}]
                /\ toast' = "none"
                /\ UNCHANGED <<path, arrival, navState>>
    /\ dialog' = "none"
    /\ toggled' = NoToggle
    /\ UNCHANGED <<loginVars, dashVars>>
    /\ UNCHANGED <<localStorage, loginTimers, verifyTimers, idleGuard>>

\* Errors the backend answers getBallot and castVote with.
LoadErrors ==
    {Rejection(400, "Invalid ballot token", 0), Rejection(401, "Invalid token", 0),
     Rejection(401, "Unauthorized", 0), Rejection(500, "Server error", 0),
     Rejection(NoResponse, Undefined, 0)}
CastErrors ==
    {Rejection(400, "Ballot token already used", 0),
     Rejection(400, "Positions not open for voting", 1),
     Rejection(400, "Positions not open for voting", 0),
     Rejection(400, "Invalid vote", 0), Rejection(400, Undefined, 0),
     Rejection(401, "Unauthorized", 0), Rejection(500, "Server error", 0),
     Rejection(NoResponse, Undefined, 0)}

\* loadBallot, after the await: the ballot arrives.
LoadSucceeds(req, ballot) ==
    /\ Rendered
    /\ req \in inFlight
    /\ req.kind = "load"
    /\ req.live
    /\ inFlight' = inFlight \ {req}
    /\ ballotData' = ballot
    /\ loading' = FALSE
    /\ toast' = IF Len(ballot.positions) > 0 /\ Cardinality(ballot.candidates) = 0
                THEN "No approved candidates available" ELSE "none"
    /\ NoHistory
    /\ UNCHANGED <<loginVars, dashVars>>
    /\ UNCHANGED <<path, view, arrival, navState, localStorage, loginTimers, verifyTimers,
                   ballotToken, submitting, votes, currentStep, idleGuard>>

\* The same, answered to a component that has unmounted: its setState calls do
\* nothing, and of the ballot only 'has positions and no candidate' is read, which
\* the ballots of at most one position already decide.
UnmountedBallots == {b \in Ballots : Len(b.positions) <= 1}
LoadSucceedsUnmounted(req, ballot) ==
    /\ Rendered
    /\ req \in inFlight
    /\ req.kind = "load"
    /\ ~req.live
    /\ inFlight' = inFlight \ {req}
    /\ toast' = IF Len(ballot.positions) > 0 /\ Cardinality(ballot.candidates) = 0
                THEN "No approved candidates available" ELSE "none"
    /\ NoHistory
    /\ UNCHANGED <<loginVars, dashVars>>
    /\ UNCHANGED <<path, view, arrival, navState, localStorage, loginTimers, verifyTimers,
                   pageVars, idleGuard>>

\* loadBallot, after the await: the request is rejected (catch, finally).
LoadFails(req, error) ==
    /\ Rendered
    /\ req \in inFlight
    /\ req.kind = "load"
    /\ LET r == ResponseInterceptor(localStorage, error)
           err == r.rejection
       IN  /\ loginTimers' = IF r.timer = 1 THEN 1 ELSE loginTimers
           /\ IF err.status = 401 \/ err.status = 400
              THEN /\ toast' = "Invalid or expired ballot token"
                   /\ localStorage' = [r.storage EXCEPT !.ballotToken = Null]
                   /\ NavigateVerify(inFlight \ {req})
              ELSE /\ toast' = "Failed to load ballot"
                   /\ localStorage' = r.storage
                   /\ inFlight' = inFlight \ {req}
                   /\ loading' = IF req.live THEN FALSE ELSE loading
                   /\ UNCHANGED <<path, view, arrival, navState, ballotToken, submitting,
                                  ballotData, votes, currentStep>>
    /\ NoHistory
    /\ UNCHANGED <<loginVars, dashVars>>
    /\ UNCHANGED <<verifyTimers, idleGuard>>

\* A candidate card is clicked: handleVoteChange(currentPosition.id, candidate.id).
SelectCandidate(c) ==
    /\ WizardShown
    /\ currentStep < totalPositions
    /\ c \in positionCandidates
    /\ votes' = handleVoteChange(votes, currentPosition, c.id)
    /\ UNCHANGED <<loginVars, dashVars>>
    /\ UNCHANGED <<routerVars, localStorage, apiVars, ballotToken, loading, submitting,
                   ballotData, currentStep, inFlight, verifyTimers>>

ClickCandidate(c) ==
    /\ SelectCandidate(c)
    /\ Quiet

\* The same click, with the calls made in succession with the same arguments
\* counted and the selection map before the first of them kept.
ClickCandidateRecorded(c) ==
    /\ SelectCandidate(c)
    /\ toggled' =
         IF toggled.n = 1 /\ toggled.positionId = currentPosition
                          /\ toggled.candidateId = c.id
         THEN [toggled EXCEPT !.n = 2]
         ELSE [n |-> 1, positionId |-> currentPosition, candidateId |-> c.id,
               before |-> votes]
    /\ dialog' = "none"
    /\ sent' = NoRequest
    /\ toast' = "none"

\* handleNext, handlePrevious and the progress bar's step buttons.
ClickNext ==
    /\ WizardShown
    /\ NextRendered
    /\ ~NextDisabled
    /\ currentStep' = IF currentStep < Len(ballotData.positions) - 1
                      THEN currentStep + 1 ELSE currentStep
    /\ Quiet
    /\ UNCHANGED <<loginVars, dashVars>>
    /\ UNCHANGED <<routerVars, localStorage, apiVars, ballotToken, loading, submitting,
                   ballotData, votes, inFlight, verifyTimers>>

ClickPrevious ==
    /\ WizardShown
    /\ currentStep # 0
    /\ currentStep' = IF currentStep > 0 THEN currentStep - 1 ELSE currentStep
    /\ Quiet
    /\ UNCHANGED <<loginVars, dashVars>>
    /\ UNCHANGED <<routerVars, localStorage, apiVars, ballotToken, loading, submitting,
                   ballotData, votes, inFlight, verifyTimers>>

ClickStep(index) ==
    /\ WizardShown
    /\ index \in 0..(totalPositions - 1)
    /\ currentStep' = index
    /\ Quiet
    /\ UNCHANGED <<loginVars, dashVars>>
    /\ UNCHANGED <<routerVars, localStorage, apiVars, ballotToken, loading, submitting,
                   ballotData, votes, inFlight, verifyTimers>>

\* handleSubmit up to the request: which way it goes.
MissingPositions(data, v) ==
    {i \in 1..Len(data.positions) : ~HasVote(v, data.positions[i])}
\* handleSubmit with the answer of confirm() not looked at.
SubmitOutcomeIgnoresConfirm(data, v, confirmed) ==
    IF ~data.loaded THEN "no-ballot"
    ELSE IF Cardinality(MissingPositions(data, v)) > 0 THEN "missing"
    ELSE "send"

SubmitOutcome(data, v, confirmed) ==
    IF ~data.loaded THEN "no-ballot"
    ELSE IF Cardinality(MissingPositions(data, v)) > 0 THEN "missing"
    ELSE IF ~confirmed THEN "declined"
    ELSE "send"

\* Object.entries(votes) mapped to {positionId, candidateId}.
VoteData(v) == {[positionId |-> q, candidateId |-> v[q]] : q \in DOMAIN v}

\* handleSubmit, up to the await of castVote.
handleSubmit(confirmed) ==
    LET outcome == SubmitOutcome(ballotData, votes, confirmed)
    IN  /\ dialog' = IF outcome \in {"no-ballot", "missing"} THEN "not asked"
                      ELSE IF confirmed THEN "accepted" ELSE "declined"
        /\ toggled' = NoToggle
        /\ IF outcome = "send"
           THEN /\ submitting' = TRUE
                /\ sent' = [api |-> "castVote", token |-> ballotToken,
                            votes |-> VoteData(votes)]
                /\ inFlight' = inFlight \cup {[kind |-> "cast", live |-> TRUE]}
                /\ toast' = "none"
           ELSE /\ toast' = IF outcome = "missing" THEN "Please vote for" ELSE "none"
                /\ sent' = NoRequest
                /\ UNCHANGED <<submitting, inFlight>>
        /\ UNCHANGED <<loginVars, dashVars>>
        /\ UNCHANGED <<routerVars, localStorage, apiVars, ballotToken, loading,
                       ballotData, votes, currentStep, verifyTimers>>

\* The Submit Vote button is clicked and the voter answers the confirm() dialog.
ClickSubmit(confirmed) ==
    /\ WizardShown
    /\ SubmitRendered
    /\ ~SubmitDisabled
    /\ handleSubmit(confirmed)

\* handleSubmit after the await: the cast is accepted.
CastSucceeds(req) ==
    /\ Rendered
    /\ req \in inFlight
    /\ req.kind = "cast"
    /\ inFlight' = inFlight \ {req}
    /\ toast' = "Vote cast successfully"
    /\ localStorage' = [localStorage EXCEPT !.ballotToken = Null]
    /\ verifyTimers' = IF verifyTimers < MaxTimers THEN verifyTimers + 1 ELSE verifyTimers
    /\ submitting' = IF req.live THEN FALSE ELSE submitting
    /\ NoHistory
    /\ UNCHANGED <<loginVars, dashVars>>
    /\ UNCHANGED <<routerVars, apiVars, ballotToken, loading, ballotData, votes,
                   currentStep>>

\* The catch block with every 400 taken for a used ballot token.
CastFailureKindAlwaysUsed(err) ==
    IF err.status = 400 THEN "already used" ELSE "other"

\* handleSubmit's catch block: which of its branches a rejection takes.
CastFailureKind(err) ==
    IF err.status = 400 /\ Includes(err.error, "already used") THEN "already used"
    ELSE IF err.status = 400 /\ Includes(err.error, "not open for voting") THEN "closed"
    ELSE "other"

\* handleSubmit after the await: the cast is rejected (catch, finally).
CastFails(req, error) ==
    /\ Rendered
    /\ req \in inFlight
    /\ req.kind = "cast"
    /\ LET r == ResponseInterceptor(localStorage, error)
           err == r.rejection
       IN  /\ loginTimers' = IF r.timer = 1 THEN 1 ELSE loginTimers
           /\ IF CastFailureKind(err) = "already used"
              THEN /\ toast' = "This ballot has already been used"
                   /\ localStorage' = [r.storage EXCEPT !.ballotToken = Null]
                   /\ NavigateVerify(inFlight \ {req})
              ELSE /\ toast' =
                        IF CastFailureKind(err) = "closed"
                        THEN IF err.closedPositions > 0
                             THEN "Voting window closed for"
                             ELSE "error and hint"
                        ELSE IF Truthy(err.error) THEN "server error text"
                        ELSE "Failed to cast vote"
                   /\ localStorage' = r.storage
                   /\ inFlight' = inFlight \ {req}
                   /\ submitting' = IF req.live THEN FALSE ELSE submitting
                   /\ UNCHANGED <<path, view, arrival, navState, ballotToken, loading,
                                  ballotData, votes, currentStep>>
    /\ NoHistory
    /\ UNCHANGED <<loginVars, dashVars>>
    /\ UNCHANGED <<verifyTimers, idleGuard>>

\* The timer armed by a successful cast fires: navigate('/verify').
VerifyTimerFires ==
    /\ Rendered
    /\ verifyTimers > 0
    /\ verifyTimers' = verifyTimers - 1
    /\ NavigateVerify(inFlight)
    /\ Quiet
    /\ UNCHANGED <<loginVars, dashVars>>
    /\ UNCHANGED <<localStorage, loginTimers, idleGuard>>

\* 'Back to Verification' on the No Active Elections card.
ClickBackToVerification ==
    /\ NoElectionsShown
    /\ NavigateVerify(inFlight)
    /\ Quiet
    /\ UNCHANGED <<loginVars, dashVars>>
    /\ UNCHANGED <<localStorage, loginTimers, verifyTimers,
                   idleGuard>>

\* VerificationPage is rendered at /verify.
VerificationPageMount ==
    /\ path = "/verify"
    /\ view = "pending"
    /\ view' = "VerificationPage"
    /\ Quiet
    /\ UNCHANGED <<loginVars, dashVars>>
    /\ UNCHANGED <<path, hops, arrival, navState, localStorage, apiVars, pageVars,
                   inFlight, verifyTimers>>

\* VerificationPage.onVerifyOTP, the confirmOTP call answered with success.
OtpConfirmed(responseBallotToken) ==
    /\ view = "VerificationPage"
    /\ localStorage' =
         [localStorage EXCEPT !.ballotToken = StoredText(responseBallotToken)]
    /\ toast' = "Verification successful"
    /\ path' = "/vote"
    /\ view' = "pending"
    /\ arrival' = "navigated"
    /\ navState' = responseBallotToken
    /\ NoHistory
    /\ UNCHANGED <<loginVars, dashVars>>
    /\ UNCHANGED <<hops, apiVars, pageVars, inFlight, verifyTimers>>

InitVote ==
    /\ path \in {"/verify", "/vote"}
    /\ view = "pending"
    /\ hops = 0
    /\ arrival = "opened"
    /\ localStorage \in [token : {Null}, user : {NoItem},
                         ballotToken : {Null} \cup BallotTokens, welcomeMessage : {NoItem}]
    /\ loginTimers = 0
    /\ lastResult = NoResult
    /\ answered = 0
    /\ InitVoting

NextVote ==
    \/ \E p \in {"/verify", "/vote"} : Visit(p)
    \/ VotingPageMount
    \/ VerificationPageMount
    \/ \E t \in BallotTokens : OtpConfirmed(t)
    \/ \E req \in inFlight, b \in Ballots : LoadSucceeds(req, b)
    \/ \E req \in inFlight, b \in UnmountedBallots : LoadSucceedsUnmounted(req, b)
    \/ \E req \in inFlight, e \in LoadErrors : LoadFails(req, e)
    \/ \E c \in ballotData.candidates : ClickCandidate(c)
    \/ ClickNext
    \/ ClickPrevious
    \/ \E i \in 0..(MaxPositions - 1) : ClickStep(i)
    \/ \E confirmed \in BOOLEAN : ClickSubmit(confirmed)
    \/ \E req \in inFlight : CastSucceeds(req)
    \/ \E req \in inFlight, e \in CastErrors : CastFails(req, e)
    \/ VerifyTimerFires
    \/ ClickBackToVerification
    \/ LoginTimerFires
    \/ RouteRender

SpecVote == InitVote /\ [][NextVote]_vars

\* The wizard as rendered for a loaded ballot, with any selection the clicks can
\* have produced, at any step.
SelectionMaps(b) ==
    UNION {[S -> {c.id : c \in b.candidates}] : S \in SUBSET (1..Len(b.positions))}
ValidSelection(b, v) ==
    \A q \in DOMAIN v : \E c \in b.candidates : c.position = q /\ c.id = v[q]

InitToggle ==
    /\ path = "/vote"
    /\ view = "VotingPage"
    /\ hops = 0
    /\ arrival = "navigated"
    /\ localStorage = [token |-> Null, user |-> NoItem, ballotToken |-> "bt1",
                       welcomeMessage |-> NoItem]
    /\ navState = "bt1"
    /\ loginTimers = 0
    /\ lastResult = NoResult
    /\ answered = 0
    /\ ballotToken = "bt1"
    /\ loading = FALSE
    /\ submitting = FALSE
    /\ ballotData \in {b \in BallotsUpTo(MaxToggleCands) : Len(b.positions) > 0}
    /\ votes \in {v \in SelectionMaps(ballotData) : ValidSelection(ballotData, v)}
    /\ currentStep \in 0..(Len(ballotData.positions) - 1)
    /\ inFlight = {}
    /\ sent = NoRequest
    /\ verifyTimers = 0
    /\ toast = "none"
    /\ dialog = "none"
    /\ toggled = NoToggle
    /\ loginError = EmptyString
    /\ pageLoading = FALSE
    /\ loginType = "user"
    /\ regNo = EmptyString
    /\ formErrors = "none"
    /\ InitDashboard

NextToggle ==
    \/ \E c \in ballotData.candidates : ClickCandidateRecorded(c)
    \/ ClickNext
    \/ ClickPrevious
    \/ \E i \in 0..(MaxPositions - 1) : ClickStep(i)

SpecToggle == InitToggle /\ [][NextToggle]_vars

\* ------------------------------------------------------------------ login pages
\* Texts typed into the form fields, and what String.prototype.trim,
\* toUpperCase and toLowerCase make of them.
EmailTexts == {"", " ", "A@b.c"}
PasswordTexts == {"", " ", "secret1"}
RegNoTexts == {"", "  ", "AB1", " ab1 "}
OtpTexts == {"", "12345", "123456"}

\* Trim leaving the white space where it is.
TrimNothing(s) == s

Trim(s) ==
    CASE s = " " -> ""
      [] s = "  " -> ""
      [] s = "A@b.c " -> "A@b.c"
      [] s = " ab1 " -> "ab1"
      [] s = " AB1 " -> "AB1"
      [] OTHER -> s
ToUpperCase(s) ==
    CASE s = "ab1" -> "AB1"
      [] s = " ab1 " -> " AB1 "
      [] OTHER -> s
ToLowerCase(s) ==
    CASE s = "A@b.c" -> "a@b.c"
      [] s = "A@b.c " -> "a@b.c "
      [] OTHER -> s
Length(s) ==
    CASE s = "" -> 0
      [] s = " " -> 1
      [] s \in {"  ", "pw"} -> 2
      [] s \in {"AB1", "ab1"} -> 3
      [] s \in {" ab1 ", " AB1 ", "12345", "a@b.c", "A@b.c"} -> 5
      [] s \in {"123456", "A@b.c ", "a@b.c "} -> 6
      [] s = "secret1" -> 7
IsEmail(s) == s \in {"a@b.c", "A@b.c"}

\* regNo.trim() without the change of case.
NormalizeKeepsCase(s) == Trim(s)

\* regNo.trim().toUpperCase()
Normalize(s) == ToUpperCase(Trim(s))

\* What each form can hold when it is submitted; a field that a form does not
\* have keeps the empty text.
FormData == [email : EmailTexts, password : PasswordTexts, regNo : RegNoTexts]
UserLoginData == {d \in FormData : d.regNo = EmptyString}
VoterRegData == {d \in FormData : d.email = EmptyString /\ d.password = EmptyString}

\* unifiedLoginSchema's refinement, loginSchema and voterRegSchema: whether
\* react-hook-form calls the submit handler.
unifiedLoginSchema(data) ==
    LET hasEmailPassword == Truthy(data.email) /\ Truthy(data.password)
        hasRegNo == Truthy(data.regNo) /\ Trim(data.regNo) # EmptyString
    IN  hasEmailPassword \/ hasRegNo
loginSchema(data) == IsEmail(data.email) /\ Length(data.password) >= 6
voterRegSchema(data) == Length(data.regNo) >= 1
verifyOTPSchema(r, otp) == Length(r) >= 1 /\ Length(otp) = 6

\* onUnifiedLogin with the registration number looked at first.
UnifiedModePrefersRegNo(data) ==
    LET hasEmailPassword ==
            /\ Truthy(data.email) /\ Truthy(data.password)
            /\ Trim(data.email) # EmptyString /\ Trim(data.password) # EmptyString
        hasRegNo == Truthy(data.regNo) /\ Trim(data.regNo) # EmptyString
    IN  IF hasRegNo THEN "voter" ELSE IF hasEmailPassword THEN "user" ELSE "none"

\* HomePage.onUnifiedLogin: the login type it determines from what is filled.
UnifiedMode(data) ==
    LET hasEmailPassword ==
            /\ Truthy(data.email) /\ Truthy(data.password)
            /\ Trim(data.email) # EmptyString /\ Trim(data.password) # EmptyString
        hasRegNo == Truthy(data.regNo) /\ Trim(data.regNo) # EmptyString
    IN  IF hasEmailPassword THEN "user" ELSE IF hasRegNo THEN "voter" ELSE "none"

\* What the backend may answer authAPI.login with: a body with or without a
\* token, with a user or null, the user with or without a name or an email.
LoginUsers ==
    [type : {"object"}, role : Roles \cup {"VOTER"}, status : {"ACTIVE", "INACTIVE"},
     named : BOOLEAN]
LoginResponses == [token : {"jwt", Undefined}, user : LoginUsers \cup {[type |-> "null"]}]

\* JSON.stringify(response.user), as far as ProtectedRoute reads it back.
StoredUser(u) == JsonItem([type |-> "object", role |-> u.role, status |-> u.status])

DeactivatedMessage == "Your account has been deactivated"

\* The login handlers with the check of a deactivated officer left out.
LoginOutcomeNoDeactivationCheck(response) ==
    IF ~Truthy(response.token) \/ response.user.type = "null" THEN "invalid"
    ELSE IF ~response.user.named THEN "threw"
    ELSE "welcome"

\* onUnifiedLogin / onUserLogin after the await: which way the response goes.
\* "threw" is the TypeError of response.user.email.split on a user that has
\* neither name nor email, raised after token and user were stored.
LoginOutcome(response) ==
    IF ~Truthy(response.token) \/ response.user.type = "null" THEN "invalid"
    ELSE IF response.user.role = "OFFICER" /\ response.user.status = "INACTIVE"
    THEN "deactivated"
    ELSE IF ~response.user.named THEN "threw"
    ELSE "welcome"

\* The route the login handlers navigate to for a role.
LoginTarget(role) ==
    IF role = "ADMIN" THEN "/admin/dashboard"
    ELSE IF role = "OFFICER" THEN "/officer/dashboard"
    ELSE IF role = "CANDIDATE" THEN "/candidate/dashboard"
    ELSE "/"

idleLogin == <<pageVars, verifyTimers, lastResult, answered, dashVars>>
NoClicks ==
    /\ dialog' = "none"
    /\ toggled' = NoToggle

\* navigate(to, {state}) from a login page: the page unmounts, and the requests it
\* awaits are answered to a component that is gone.
NavigateTo(to, state, reqs) ==
    /\ path' = to
    /\ view' = "pending"
    /\ hops' = 0
    /\ arrival' = "navigated"
    /\ navState' = state
    /\ inFlight' = Stale(reqs)
    /\ FreshLogin

StayOnPage == UNCHANGED <<path, view, hops, arrival, navState>>

HomeShown == view = "public" /\ path = "/"
LoginShown == view = "public" /\ path = "/login"

\* The login request and the OTP request, as started by either login page.
StartLogin(data, email) ==
    /\ loginError' = EmptyString
    /\ pageLoading' = TRUE
    /\ sent' = [api |-> "login", email |-> email, password |-> data.password]
    /\ inFlight' = inFlight \cup {[kind |-> "login", live |-> TRUE, data |-> data]}
StartRequestOTP(data) ==
    /\ loginError' = EmptyString
    /\ pageLoading' = TRUE
    /\ sent' = [api |-> "requestOTP", regNo |-> Normalize(data.regNo)]
    /\ inFlight' = inFlight \cup {[kind |-> "requestOTP", live |-> TRUE, data |-> data]}
ShowError(message) ==
    /\ loginError' = message
    /\ pageLoading' = FALSE
    /\ sent' = NoRequest
    /\ UNCHANGED inFlight

\* HomePage: the form is submitted (handleSubmit(onUnifiedLogin)).
HomeSubmit(data) ==
    /\ HomeShown
    /\ ~pageLoading
    /\ IF ~unifiedLoginSchema(data)
       THEN /\ formErrors' = "Please enter either"
            /\ sent' = NoRequest
            /\ UNCHANGED <<loginError, pageLoading, inFlight>>
       ELSE /\ formErrors' = "none"
            /\ LET mode == UnifiedMode(data)
               IN  IF mode = "user"
                   THEN StartLogin(data, ToLowerCase(Trim(data.email)))
                   ELSE IF mode = "voter"
                   THEN StartRequestOTP(data)
                   ELSE ShowError("Please enter either")
    /\ toast' = "none"
    /\ NoClicks
    /\ StayOnPage
    /\ UNCHANGED <<localStorage, loginTimers, loginType, regNo, idleLogin>>

\* UnifiedLoginPage: a tab is chosen.
SetLoginType(type) ==
    /\ LoginShown
    /\ loginType' = type
    /\ loginError' = EmptyString
    /\ formErrors' = "none"
    /\ Quiet
    /\ StayOnPage
    /\ UNCHANGED <<localStorage, loginTimers, inFlight, pageLoading, regNo, idleLogin>>

\* UnifiedLoginPage: the form of the 'user' tab is submitted (handleSubmit(onUserLogin)).
UserLoginSubmit(data) ==
    /\ LoginShown
    /\ loginType = "user"
    /\ ~pageLoading
    /\ IF ~loginSchema(data)
       THEN /\ formErrors' = "Invalid email address or password"
            /\ sent' = NoRequest
            /\ UNCHANGED <<loginError, pageLoading, inFlight>>
       ELSE /\ formErrors' = "none"
            /\ IF ~Truthy(data.email) \/ ~Truthy(data.password)
               THEN /\ loginError' = "Email and password are required"
                    /\ sent' = NoRequest
                    /\ UNCHANGED <<pageLoading, inFlight>>
               ELSE StartLogin(data, ToLowerCase(Trim(data.email)))
    /\ toast' = "none"
    /\ NoClicks
    /\ StayOnPage
    /\ UNCHANGED <<localStorage, loginTimers, loginType, regNo, idleLogin>>

\* UnifiedLoginPage: the form of the 'voter' tab is submitted (handleSubmit(onVoterLogin)).
VoterLoginSubmit(data) ==
    /\ LoginShown
    /\ loginType = "voter"
    /\ ~pageLoading
    /\ IF ~voterRegSchema(data)
       THEN /\ formErrors' = "Registration number is required"
            /\ sent' = NoRequest
            /\ UNCHANGED <<loginError, pageLoading, inFlight>>
       ELSE /\ formErrors' = "none"
            /\ IF ~Truthy(data.regNo) \/ Trim(data.regNo) = EmptyString
               THEN /\ loginError' = "Registration number is required"
                    /\ sent' = NoRequest
                    /\ UNCHANGED <<pageLoading, inFlight>>
               ELSE StartRequestOTP(data)
    /\ toast' = "none"
    /\ NoClicks
    /\ StayOnPage
    /\ UNCHANGED <<localStorage, loginTimers, loginType, regNo, idleLogin>>

\* onUnifiedLogin / onUserLogin after the await: authAPI.login is answered.
LoginAnswered(req, response) ==
    /\ Rendered
    /\ req \in inFlight
    /\ req.kind = "login"
    /\ LET outcome == LoginOutcome(response)
           user == response.user
           session == [localStorage EXCEPT !.token = response.token,
                                           !.user = StoredUser(user)]
       IN  IF outcome = "invalid"
           THEN /\ loginError' = "Invalid response from server"
                /\ pageLoading' = FALSE
                /\ inFlight' = inFlight \ {req}
                /\ StayOnPage
                /\ UNCHANGED <<localStorage, loginType, regNo, formErrors>>
           ELSE IF outcome = "deactivated"
           THEN /\ loginError' = DeactivatedMessage
                /\ pageLoading' = FALSE
                /\ localStorage' = [localStorage EXCEPT !.token = Null, !.user = NoItem]
                /\ inFlight' = inFlight \ {req}
                /\ StayOnPage
                /\ UNCHANGED <<loginType, regNo, formErrors>>
           ELSE IF outcome = "threw"
           THEN /\ loginError' = "TypeError"
                /\ pageLoading' = FALSE
                /\ localStorage' = session
                /\ inFlight' = inFlight \ {req}
                /\ StayOnPage
                /\ UNCHANGED <<loginType, regNo, formErrors>>
           ELSE /\ localStorage' = [session EXCEPT !.welcomeMessage = JsonItem(WelcomeRecord(now))]
                /\ IF LoginTarget(user.role) = path
                   THEN \* navigate('/') on HomePage: the page stays mounted
                        /\ inFlight' = inFlight \ {req}
                        /\ StayOnPage
                        /\ UNCHANGED loginVars
                   ELSE NavigateTo(LoginTarget(user.role), Null, inFlight \ {req})
    /\ Quiet
    /\ UNCHANGED <<loginTimers, idleLogin>>

\* Errors the backend answers authAPI.login and the OTP calls with.
LoginErrors ==
    {Rejection(401, "Invalid credentials", 0), Rejection(401, "Account deactivated", 0),
     Rejection(403, "Account is inactive", 0), Rejection(500, Undefined, 0),
     Rejection(NoResponse, Undefined, 0)}
OtpErrors ==
    {Rejection(429, "Too many requests", 0), Rejection(429, Undefined, 0),
     Rejection(400, "Invalid OTP", 0), Rejection(401, "Unauthorized", 0),
     Rejection(NoResponse, Undefined, 0)}

\* onUnifiedLogin / onUserLogin after the await: authAPI.login is rejected.
LoginRejected(req, err) ==
    /\ Rendered
    /\ req \in inFlight
    /\ req.kind = "login"
    /\ LET r == ResponseInterceptor(localStorage, err)
           errorMessage == IF Truthy(r.rejection.error) THEN r.rejection.error
                           ELSE "err.message"
       IN  /\ localStorage' = r.storage
           /\ loginTimers' = IF r.timer = 1 THEN 1 ELSE loginTimers
           /\ loginError' = IF \/ Includes(errorMessage, "inactive")
                               \/ Includes(errorMessage, "deactivated")
                            THEN DeactivatedMessage ELSE errorMessage
    /\ pageLoading' = FALSE
    /\ inFlight' = inFlight \ {req}
    /\ Quiet
    /\ StayOnPage
    /\ UNCHANGED <<loginType, regNo, formErrors, idleLogin>>

\* onUnifiedLogin / onVoterLogin after the await: the OTP was sent.
OtpRequestAnswered(req) ==
    /\ Rendered
    /\ req \in inFlight
    /\ req.kind = "requestOTP"
    /\ toast' = "OTP sent to your phone"
    /\ NavigateTo("/login/otp", Normalize(req.data.regNo), inFlight \ {req})
    /\ NoHistory
    /\ UNCHANGED <<localStorage, loginTimers, idleLogin>>

\* onUnifiedLogin / onVoterLogin after the await: the OTP request is rejected.
OtpRequestRejected(req, err) ==
    /\ Rendered
    /\ req \in inFlight
    /\ req.kind = "requestOTP"
    /\ LET r == ResponseInterceptor(localStorage, err)
       IN  /\ localStorage' = r.storage
           /\ loginTimers' = IF r.timer = 1 THEN 1 ELSE loginTimers
           /\ loginError' = IF r.rejection.status = 429 THEN "error and hint"
                            ELSE IF Truthy(r.rejection.error) THEN r.rejection.error
                            ELSE "err.message"
    /\ pageLoading' = FALSE
    /\ inFlight' = inFlight \ {req}
    /\ Quiet
    /\ StayOnPage
    /\ UNCHANGED <<loginType, regNo, formErrors, idleLogin>>

\* ------------------------------------------------------------------ OTP entry page
\* The effect's test with any navigation state accepted.
HasCarriedRegNoAlways(state) == TRUE

\* The effect's test of location.state.regNo.
HasCarriedRegNo(state) == Truthy(state)

\* VoterOTPPage mounts: its effect reads location.state.regNo.
VoterOTPPageMount ==
    /\ path = "/login/otp"
    /\ view = "pending"
    /\ LET stateRegNo == navState
       IN  IF HasCarriedRegNo(stateRegNo)
           THEN /\ regNo' = stateRegNo
                /\ view' = "VoterOTPPage"
                /\ toast' = "none"
                /\ UNCHANGED <<path, hops, arrival, navState, inFlight, loginError,
                               pageLoading, loginType, formErrors>>
           ELSE /\ toast' = "Please enter your registration number first"
                /\ NavigateTo("/login", Null, inFlight)
    /\ NoHistory
    /\ UNCHANGED <<localStorage, loginTimers, idleLogin>>

\* VoterOTPPage: the form is submitted (handleSubmit(onVerifyOTP)); the hidden
\* regNo field holds what the effect set.
VerifyOtpSubmit(otp) ==
    /\ view = "VoterOTPPage"
    /\ ~pageLoading
    /\ IF ~verifyOTPSchema(regNo, otp)
       THEN /\ formErrors' = "OTP must be 6 digits"
            /\ toast' = "none"
            /\ sent' = NoRequest
            /\ UNCHANGED <<pageLoading, inFlight>>
       ELSE /\ formErrors' = "none"
            /\ IF ~Truthy(regNo) \/ ~Truthy(otp)
               THEN /\ toast' = "Registration number and OTP are required"
                    /\ sent' = NoRequest
                    /\ UNCHANGED <<pageLoading, inFlight>>
               ELSE /\ toast' = "none"
                    /\ pageLoading' = TRUE
                    /\ sent' = [api |-> "confirmOTP", regNo |-> Normalize(regNo),
                                otp |-> otp]
                    /\ inFlight' = inFlight \cup {[kind |-> "confirmOTP", live |-> TRUE]}
    /\ NoClicks
    /\ StayOnPage
    /\ UNCHANGED <<localStorage, loginTimers, loginError, loginType, regNo, idleLogin>>

\* VoterOTPPage.onVerifyOTP after the await: the confirmation is answered.
ConfirmAnswered(req, responseBallotToken) ==
    /\ Rendered
    /\ req \in inFlight
    /\ req.kind = "confirmOTP"
    /\ IF Truthy(responseBallotToken)
       THEN /\ localStorage' = [localStorage EXCEPT !.ballotToken = responseBallotToken]
            /\ toast' = "Verification successful"
            /\ NavigateTo("/vote", responseBallotToken, inFlight \ {req})
       ELSE /\ toast' = "Invalid response from server"
            /\ pageLoading' = IF req.live THEN FALSE ELSE pageLoading
            /\ inFlight' = inFlight \ {req}
            /\ StayOnPage
            /\ UNCHANGED <<localStorage, loginError, loginType, regNo, formErrors>>
    /\ NoHistory
    /\ UNCHANGED <<loginTimers, idleLogin>>

\* VoterOTPPage.onVerifyOTP after the await: the confirmation is rejected.
ConfirmRejected(req, err) ==
    /\ Rendered
    /\ req \in inFlight
    /\ req.kind = "confirmOTP"
    /\ LET r == ResponseInterceptor(localStorage, err)
       IN  /\ localStorage' = r.storage
           /\ loginTimers' = IF r.timer = 1 THEN 1 ELSE loginTimers
           /\ toast' = IF Truthy(r.rejection.error) THEN r.rejection.error
                       ELSE "err.message"
    /\ pageLoading' = IF req.live THEN FALSE ELSE pageLoading
    /\ inFlight' = inFlight \ {req}
    /\ NoHistory
    /\ StayOnPage
    /\ UNCHANGED <<loginError, loginType, regNo, formErrors, idleLogin>>

\* VoterOTPPage.handleResendOTP, up to the await.
ResendOTP ==
    /\ view = "VoterOTPPage"
    /\ IF ~Truthy(regNo)
       THEN /\ toast' = "Registration number is required"
            /\ sent' = NoRequest
            /\ UNCHANGED inFlight
       ELSE /\ toast' = "none"
            /\ sent' = [api |-> "requestOTP", regNo |-> Normalize(regNo)]
            /\ inFlight' = inFlight \cup {[kind |-> "resendOTP", live |-> TRUE]}
    /\ NoClicks
    /\ StayOnPage
    /\ UNCHANGED <<localStorage, loginTimers, loginVars, idleLogin>>

\* handleResendOTP after the await: answered, or rejected.
ResendAnswered(req) ==
    /\ Rendered
    /\ req \in inFlight
    /\ req.kind = "resendOTP"
    /\ toast' = "New OTP sent"
    /\ inFlight' = inFlight \ {req}
    /\ NoHistory
    /\ StayOnPage
    /\ UNCHANGED <<localStorage, loginTimers, loginVars, idleLogin>>

ResendRejected(req, err) ==
    /\ Rendered
    /\ req \in inFlight
    /\ req.kind = "resendOTP"
    /\ LET r == ResponseInterceptor(localStorage, err)
       IN  /\ localStorage' = r.storage
           /\ loginTimers' = IF r.timer = 1 THEN 1 ELSE loginTimers
           /\ toast' = IF r.rejection.status = 429 THEN "error and hint"
                       ELSE IF Truthy(r.rejection.error) THEN r.rejection.error
                       ELSE "Failed to resend OTP"
    /\ inFlight' = inFlight \ {req}
    /\ NoHistory
    /\ StayOnPage
    /\ UNCHANGED <<loginVars, idleLogin>>

\* VoterOTPPage: the Back button, navigate('/login').
ClickBack ==
    /\ view = "VoterOTPPage"
    /\ NavigateTo("/login", Null, inFlight)
    /\ Quiet
    /\ UNCHANGED <<localStorage, loginTimers, idleLogin>>

\* VerificationPage.onVerifyOTP, the confirmOTP call rejected.
VerificationOtpRejected(err) ==
    /\ view = "VerificationPage"
    /\ LET r == ResponseInterceptor(localStorage, err)
       IN  /\ localStorage' = r.storage
           /\ loginTimers' = IF r.timer = 1 THEN 1 ELSE loginTimers
           /\ toast' = IF Truthy(r.rejection.error) THEN r.rejection.error
                       ELSE "Invalid OTP"
    /\ NoHistory
    /\ StayOnPage
    /\ UNCHANGED <<inFlight, loginVars, idleLogin>>

\* What the router shows on a dashboard's route: the route's children, which
\* become the dashboard once its mount effects have run.
DashboardViews == {"children", "OfficerDashboard", "AdminDashboard", "CandidateDashboard"}

\* TopBar.handleLogout on a dashboard.
TopBarLogout ==
    /\ view \in DashboardViews
    /\ localStorage' = [localStorage EXCEPT !.token = Null, !.user = NoItem,
                                            !.welcomeMessage = NoItem]
    /\ NavigateTo("/login", Null, inFlight)
    /\ Quiet
    /\ UNCHANGED <<loginTimers, idleLogin>>

LoginPaths == {"/", "/login", "/login/otp"}

\* The browser as a login page finds it: nothing stored, or the session of an
\* earlier login.
LoginStorages ==
    {[token |-> Null, user |-> NoItem, ballotToken |-> Null, welcomeMessage |-> NoItem],
     [token |-> "jwt",
      user |-> JsonItem([type |-> "object", role |-> "CANDIDATE", status |-> "ACTIVE"]),
      ballotToken |-> Null, welcomeMessage |-> NoItem]}

InitLogin ==
    /\ path \in LoginPaths
    /\ view = "pending"
    /\ hops = 0
    /\ arrival = "opened"
    /\ localStorage \in LoginStorages
    /\ loginTimers = 0
    /\ lastResult = NoResult
    /\ answered = 0
    /\ InitVoting

NextLogin ==
    \/ \E p \in LoginPaths : Visit(p)
    \/ RouteRender
    \/ \E data \in FormData : HomeSubmit(data)
    \/ \E type \in {"user", "voter"} : SetLoginType(type)
    \/ \E data \in UserLoginData : UserLoginSubmit(data)
    \/ \E data \in VoterRegData : VoterLoginSubmit(data)
    \/ \E req \in inFlight, response \in LoginResponses : LoginAnswered(req, response)
    \/ \E req \in inFlight, e \in LoginErrors : LoginRejected(req, e)
    \/ \E req \in inFlight : OtpRequestAnswered(req)
    \/ \E req \in inFlight, e \in OtpErrors : OtpRequestRejected(req, e)
    \/ VoterOTPPageMount
    \/ ClickBack
    \/ TopBarLogout
    \/ LoginTimerFires

SpecLogin == InitLogin /\ [][NextLogin]_vars

\* The voter's verification pages: /login/otp as the login pages navigate to it
\* (or opened by its URL), and /verify.
OtpPaths == {"/login", "/login/otp", "/verify"}

InitOtp ==
    /\ path \in {"/login/otp", "/verify"}
    /\ view = "pending"
    /\ hops = 0
    /\ \/ arrival = "opened" /\ navState = Null
       \/ arrival = "navigated" /\ navState = "AB1" /\ path = "/login/otp"
    /\ localStorage \in LoginStorages
    /\ loginTimers = 0
    /\ lastResult = NoResult
    /\ answered = 0
    /\ ballotToken = EmptyString
    /\ loading = TRUE
    /\ submitting = FALSE
    /\ ballotData = NoBallot
    /\ votes = << >>
    /\ currentStep = 0
    /\ inFlight = {}
    /\ sent = NoRequest
    /\ verifyTimers = 0
    /\ toast = "none"
    /\ dialog = "none"
    /\ toggled = NoToggle
    /\ loginError = EmptyString
    /\ pageLoading = FALSE
    /\ loginType = "user"
    /\ regNo = EmptyString
    /\ formErrors = "none"
    /\ InitDashboard

NextOtp ==
    \/ \E p \in OtpPaths : Visit(p)
    \/ RouteRender
    \/ VoterOTPPageMount
    \/ \E otp \in OtpTexts : VerifyOtpSubmit(otp)
    \/ \E req \in inFlight, t \in BallotTokens \cup {Undefined} : ConfirmAnswered(req, t)
    \/ \E req \in inFlight, e \in OtpErrors : ConfirmRejected(req, e)
    \/ ResendOTP
    \/ \E req \in inFlight : ResendAnswered(req)
    \/ \E req \in inFlight, e \in OtpErrors : ResendRejected(req, e)
    \/ ClickBack
    \/ VerificationPageMount
    \/ \E t \in BallotTokens \cup {Undefined} : OtpConfirmed(t)
    \/ \E e \in OtpErrors : VerificationOtpRejected(e)
    \/ VotingPageMount
    \/ LoginTimerFires

SpecOtp == InitOtp /\ [][NextOtp]_vars

\* ------------------------------------------------------------------ dashboards
ReasonTexts == {" ", "late"}          \* what the officer types as a rejection reason
Unserved == [served |-> FALSE]        \* a request the backend has not read yet

idleModal == <<pageVars, verifyTimers, lastResult, answered, loginVars, served, resetVars>>
idleMount == <<idleModal, importModal>>
idleDash == <<idleMount, welcomeVars>>

OfficerShown == view = "OfficerDashboard"
AdminShown == view = "AdminDashboard"

\* Error responses of the backend to a dashboard's calls.
OfficerErrors ==
    {Rejection(400, "Nomination already processed", 0), Rejection(401, "Token expired", 0),
     Rejection(NoResponse, Undefined, 0)}
AdminErrors ==
    {Rejection(400, "Candidate has votes", 0), Rejection(404, Undefined, 0),
     Rejection(401, "Token expired", 0), Rejection(500, "User not found", 0)}

\* welcome.timestamp and welcome.message of a parsed record.
Timestamp(welcome) == IF welcome.type = "object" THEN welcome.timestamp ELSE {}
Message(welcome) == IF welcome.type = "object" THEN welcome.message ELSE Undefined

\* IsRecent with a record of exactly 30 seconds taken as recent.
IsRecentInclusive(welcome, t) == \E ts \in Timestamp(welcome) : t - ts <= RecentWindow

\* Date.now() - welcome.timestamp < 30000: false when there is no number to subtract.
IsRecent(welcome, t) == \E ts \in Timestamp(welcome) : t - ts < RecentWindow

\* The welcome effect of the three dashboards at time t: the storage it leaves,
\* the message it sets, and whether it starts the timer of the automatic removal.
WelcomeEffect(storage, t) ==
    LET welcomeData == storage.welcomeMessage
        parsed == JSONParse(welcomeData)
        welcome == parsed.value
        removed == [storage |-> [storage EXCEPT !.welcomeMessage = NoItem],
                    message |-> Null, timer |-> FALSE]
    IN  IF ~TruthyItem(welcomeData)
        THEN [storage |-> storage, message |-> Null, timer |-> FALSE]
        ELSE IF parsed.threw \/ PropThrows(welcome)
        THEN removed                                                   \* catch
        ELSE IF IsRecent(welcome, t)
        THEN [storage |-> storage, message |-> Message(welcome), timer |-> TRUE]
        ELSE removed
\* What a mount at the present time does with the welcome record.
MountWelcome(storage) ==
    LET w == WelcomeEffect(storage, now)
    IN  /\ localStorage' = w.storage
        /\ welcomeMessage' = w.message
        /\ welcomeTimers' = IF w.timer THEN welcomeTimers \cup {now + AutoRemoveDelay}
                                       ELSE welcomeTimers

\* CallFetch with only the call made at mount sending a request.
CallFetchAtMountOnly(api, n, reqs) ==
    LET m == IF fetches = 0 THEN n ELSE 0
    IN  /\ dashLoading' = IF m > 0 THEN TRUE ELSE dashLoading
        /\ fetches' = fetches + m
        /\ inFlight' = reqs \cup {[kind |-> api, seq |-> fetches + i, live |-> TRUE,
                                   data |-> Unserved] : i \in 1..m}

\* fetchNominations() and loadData() up to their await, called n times in a row
\* while reqs are awaited: each call sets loading and sends its own request.
CallFetch(api, n, reqs) ==
    /\ dashLoading' = IF n > 0 THEN TRUE ELSE dashLoading
    /\ fetches' = fetches + n
    /\ inFlight' = reqs \cup {[kind |-> api, seq |-> fetches + i, live |-> TRUE,
                               data |-> Unserved] : i \in 1..n}

\* OfficerDashboard.fetchNominations, up to the await.
fetchNominations(reqs) == CallFetch("candidates.getAll", 1, reqs)
\* AdminDashboard.loadData called n times, each up to its first await.
loadData(n, reqs) == CallFetch("users.getAll", n, reqs)

\* The interceptor's part in a rejected call of a dashboard.
Intercepted(err) ==
    LET r == ResponseInterceptor(localStorage, err)
    IN  /\ localStorage' = r.storage
        /\ loginTimers' = IF r.timer = 1 THEN 1 ELSE loginTimers
\* err.response?.data?.error || fallback, of the rejection the caller catches.
ErrorOr(err, fallback) ==
    LET e == ResponseInterceptor(localStorage, err).rejection.error
    IN  IF Truthy(e) THEN e ELSE fallback

\* OfficerDashboard mounts: the effect checks the stored user, the welcome record,
\* and fetches the nominations.
OfficerDashboardMount ==
    /\ view = "children"
    /\ path = "/officer/dashboard"
    /\ LET user == JSONParse(localStorage.user).value
       IN  IF TruthyItem(localStorage.user) /\ Prop(user, "status") = "INACTIVE"
           THEN /\ localStorage' = RemoveSession(localStorage)
                /\ path' = "/login"
                /\ view' = "pending"
                /\ hops' = 0
                /\ arrival' = "navigated"
                /\ toast' = "Your account has been deactivated"
                /\ sent' = NoRequest
                /\ UNCHANGED <<inFlight, dashState, welcomeMessage, welcomeTimers>>
           ELSE /\ MountWelcome(localStorage)
                /\ view' = "OfficerDashboard"
                /\ fetchNominations(inFlight)
                /\ sent' = [api |-> "candidates.getAll"]
                /\ toast' = "none"
                /\ UNCHANGED <<path, hops, arrival, nominations, processing, rejectReason,
                               showRejectForm, officers, stats, shownFetch, mutations>>
    /\ NoClicks
    /\ UNCHANGED <<navState, loginTimers, backend, now, idleMount>>

\* What the backend answers to a GET request: the nominations as {id, status}
\* objects, the users as the changes made so far, the figures as their number.
Answer(api) ==
    IF api = "candidates.getAll"
    THEN {<<id, backend.nominations[id]>> : id \in NominationIds}
    ELSE IF api = "users.getAll" THEN 1..backend.changes
    ELSE backend.changes

\* The backend reads the request for the nominations: what it answers is the data
\* of that moment, whenever the answer arrives. (The administrator's calls are
\* answered with the data of the moment of the answer.)
BackendReads(req) ==
    /\ req \in inFlight
    /\ req.kind = "candidates.getAll"
    /\ ~req.data.served
    /\ inFlight' = (inFlight \ {req}) \cup
                   {[req EXCEPT !.data = [served |-> TRUE, value |-> Answer(req.kind)]]}
    /\ Quiet
    /\ UNCHANGED <<routerVars, localStorage, loginTimers, dashVars, idleDash>>

\* fetchNominations after the await: the list arrives.
NominationsAnswered(req) ==
    /\ OfficerShown
    /\ req \in inFlight
    /\ req.kind = "candidates.getAll" /\ req.live
    /\ req.data.served
    /\ nominations' = req.data.value
    /\ shownFetch' = req.seq
    /\ dashLoading' = FALSE
    /\ inFlight' = inFlight \ {req}
    /\ Quiet
    /\ UNCHANGED <<routerVars, localStorage, loginTimers, processing, rejectReason,
                   showRejectForm, officers, stats, fetches, mutations, backend, idleDash>>

\* fetchNominations after the await: the call is rejected.
NominationsRejected(req, err) ==
    /\ OfficerShown
    /\ req \in inFlight
    /\ req.kind = "candidates.getAll" /\ req.live
    /\ Intercepted(err)
    /\ toast' = "Failed to load nominations"
    /\ dashLoading' = FALSE
    /\ inFlight' = inFlight \ {req}
    /\ NoHistory
    /\ UNCHANGED <<routerVars, nominations, processing, rejectReason, showRejectForm,
                   officers, stats, fetches, shownFetch, mutations, backend, idleDash>>

\* The pending nominations are listed, with their buttons, once loading is over.
Pending(id) ==
    /\ OfficerShown
    /\ ~dashLoading
    /\ <<id, "SUBMITTED">> \in nominations

\* OfficerDashboard.handleApprove, up to the await.
ClickApprove(id, accepted) ==
    /\ Pending(id)
    /\ processing # id
    /\ mutations < MaxMutations
    /\ dialog' = IF accepted THEN "accepted" ELSE "declined"
    /\ IF accepted
       THEN /\ processing' = id
            /\ mutations' = mutations + 1
            /\ sent' = [api |-> "approve", id |-> id]
            /\ inFlight' = inFlight \cup {[kind |-> "approve", id |-> id, live |-> TRUE]}
       ELSE /\ sent' = NoRequest
            /\ UNCHANGED <<processing, inFlight, mutations>>
    /\ toast' = "none"
    /\ toggled' = NoToggle
    /\ UNCHANGED <<routerVars, localStorage, loginTimers, nominations, dashLoading,
                   rejectReason, showRejectForm, officers, stats, fetches, shownFetch,
                   backend, idleDash>>

\* handleApprove after the await: the nomination was approved.
ApproveAnswered(req) ==
    /\ OfficerShown
    /\ req \in inFlight
    /\ req.kind = "approve" /\ req.live
    /\ backend' = [backend EXCEPT !.nominations[req.id] = "APPROVED"]
    /\ toast' = "Nomination approved successfully"
    /\ fetchNominations(inFlight \ {req})
    /\ sent' = [api |-> "candidates.getAll"]
    /\ processing' = Null
    /\ NoClicks
    /\ UNCHANGED <<routerVars, localStorage, loginTimers, nominations, rejectReason,
                   showRejectForm, officers, stats, shownFetch, mutations, idleDash>>

\* handleApprove after the await: the call is rejected.
ApproveRejected(req, err) ==
    /\ OfficerShown
    /\ req \in inFlight
    /\ req.kind = "approve" /\ req.live
    /\ Intercepted(err)
    /\ toast' = ErrorOr(err, "Failed to approve nomination")
    /\ processing' = Null
    /\ inFlight' = inFlight \ {req}
    /\ NoHistory
    /\ UNCHANGED <<routerVars, nominations, dashLoading, rejectReason, showRejectForm,
                   officers, stats, fetches, shownFetch, mutations, backend, idleDash>>

\* The Reject button of a pending nomination opens its form.
OpenRejectForm(id) ==
    /\ Pending(id)
    /\ showRejectForm # id
    /\ processing # id
    /\ showRejectForm' = id
    /\ Quiet
    /\ UNCHANGED <<routerVars, localStorage, loginTimers, inFlight, nominations,
                   dashLoading, processing, rejectReason, officers, stats, fetches,
                   shownFetch, mutations, backend, idleDash>>

\* The reason is typed into the open form.
TypeReason(id, text) ==
    /\ Pending(id)
    /\ showRejectForm = id
    /\ rejectReason' = [rejectReason EXCEPT ![id] = text]
    /\ Quiet
    /\ UNCHANGED <<routerVars, localStorage, loginTimers, inFlight, nominations,
                   dashLoading, processing, showRejectForm, officers, stats, fetches,
                   shownFetch, mutations, backend, idleDash>>

\* The Cancel button of the open form.
CancelReject(id) ==
    /\ Pending(id)
    /\ showRejectForm = id
    /\ processing # id
    /\ showRejectForm' = Null
    /\ rejectReason' = [rejectReason EXCEPT ![id] = EmptyString]
    /\ Quiet
    /\ UNCHANGED <<routerVars, localStorage, loginTimers, inFlight, nominations,
                   dashLoading, processing, officers, stats, fetches, shownFetch,
                   mutations, backend, idleDash>>

\* OfficerDashboard.handleReject, up to the await; Submit Rejection is disabled
\* while the nomination is processed or its reason is blank. The handler keeps
\* the reasons of the render it was created in.
ClickSubmitRejection(id, accepted) ==
    /\ Pending(id)
    /\ showRejectForm = id
    /\ processing # id
    /\ Truthy(Trim(rejectReason[id]))
    /\ mutations < MaxMutations
    /\ LET reason == Trim(rejectReason[id])
       IN  IF ~Truthy(reason)
           THEN /\ toast' = "Please provide a reason for rejection"
                /\ dialog' = "not asked"
                /\ sent' = NoRequest
                /\ UNCHANGED <<processing, inFlight, mutations>>
           ELSE /\ toast' = "none"
                /\ dialog' = IF accepted THEN "accepted" ELSE "declined"
                /\ IF accepted
                   THEN /\ processing' = id
                        /\ mutations' = mutations + 1
                        /\ sent' = [api |-> "reject", id |-> id, reason |-> reason]
                        /\ inFlight' = inFlight \cup
                               {[kind |-> "reject", id |-> id, live |-> TRUE,
                                 rejectReason |-> rejectReason]}
                   ELSE /\ sent' = NoRequest
                        /\ UNCHANGED <<processing, inFlight, mutations>>
    /\ toggled' = NoToggle
    /\ UNCHANGED <<routerVars, localStorage, loginTimers, nominations, dashLoading,
                   rejectReason, showRejectForm, officers, stats, fetches, shownFetch,
                   backend, idleDash>>

\* handleReject after the await: the nomination was rejected.
RejectAnswered(req) ==
    /\ OfficerShown
    /\ req \in inFlight
    /\ req.kind = "reject" /\ req.live
    /\ backend' = [backend EXCEPT !.nominations[req.id] = "REJECTED"]
    /\ toast' = "Nomination rejected successfully"
    /\ rejectReason' = [req.rejectReason EXCEPT ![req.id] = EmptyString]
    /\ showRejectForm' = Null
    /\ fetchNominations(inFlight \ {req})
    /\ sent' = [api |-> "candidates.getAll"]
    /\ processing' = Null
    /\ NoClicks
    /\ UNCHANGED <<routerVars, localStorage, loginTimers, nominations, officers, stats,
                   shownFetch, mutations, idleDash>>

\* handleReject after the await: the call is rejected.
RejectRejected(req, err) ==
    /\ OfficerShown
    /\ req \in inFlight
    /\ req.kind = "reject" /\ req.live
    /\ Intercepted(err)
    /\ toast' = ErrorOr(err, "Failed to reject nomination")
    /\ processing' = Null
    /\ inFlight' = inFlight \ {req}
    /\ NoHistory
    /\ UNCHANGED <<routerVars, nominations, dashLoading, rejectReason, showRejectForm,
                   officers, stats, fetches, shownFetch, mutations, backend, idleDash>>

\* AdminDashboard mounts: the effect checks the welcome record and loads the data.
AdminDashboardMount ==
    /\ view = "children"
    /\ path = "/admin/dashboard"
    /\ MountWelcome(localStorage)
    /\ view' = "AdminDashboard"
    /\ loadData(1, inFlight)
    /\ sent' = [api |-> "users.getAll"]
    /\ toast' = "none"
    /\ NoClicks
    /\ UNCHANGED <<path, hops, arrival, navState, loginTimers, nominations, processing,
                   rejectReason, showRejectForm, officers, stats, shownFetch, mutations,
                   backend, now, idleMount>>

\* loadData after its first await: the users arrive, and the four calls for the
\* figures are sent together.
UsersAnswered(req) ==
    /\ AdminShown
    /\ req \in inFlight
    /\ req.kind = "users.getAll" /\ req.live
    /\ officers' = Answer(req.kind)
    /\ shownFetch' = req.seq
    /\ inFlight' = (inFlight \ {req}) \cup
                   {[kind |-> "stats", seq |-> req.seq, live |-> TRUE, data |-> Unserved]}
    /\ sent' = [api |-> "stats"]
    /\ toast' = "none"
    /\ NoClicks
    /\ UNCHANGED <<routerVars, localStorage, loginTimers, nominations, dashLoading,
                   processing, rejectReason, showRejectForm, stats, fetches, mutations,
                   backend, idleDash>>

\* loadData after its first await: usersAPI.getAll is rejected.
UsersRejected(req, err) ==
    /\ AdminShown
    /\ req \in inFlight
    /\ req.kind = "users.getAll" /\ req.live
    /\ Intercepted(err)
    /\ stats' = ZeroStats
    /\ officers' = NoList
    /\ dashLoading' = FALSE
    /\ inFlight' = inFlight \ {req}
    /\ Quiet
    /\ UNCHANGED <<routerVars, nominations, processing, rejectReason, showRejectForm,
                   fetches, shownFetch, mutations, backend, idleDash>>

\* loadData after Promise.all: the figures are set.
StatsAnswered(req) ==
    /\ AdminShown
    /\ req \in inFlight
    /\ req.kind = "stats" /\ req.live
    /\ stats' = Answer(req.kind)
    /\ dashLoading' = FALSE
    /\ inFlight' = inFlight \ {req}
    /\ Quiet
    /\ UNCHANGED <<routerVars, localStorage, loginTimers, nominations, processing,
                   rejectReason, showRejectForm, officers, fetches, shownFetch, mutations,
                   backend, idleDash>>

\* loadData after Promise.all with the four calls rejected: each .catch gives its
\* default, so the figures are 0.
StatsRejected(req, err) ==
    /\ AdminShown
    /\ req \in inFlight
    /\ req.kind = "stats" /\ req.live
    /\ Intercepted(err)
    /\ stats' = ZeroStats
    /\ dashLoading' = FALSE
    /\ inFlight' = inFlight \ {req}
    /\ Quiet
    /\ UNCHANGED <<routerVars, nominations, processing, rejectReason, showRejectForm,
                   officers, fetches, shownFetch, mutations, backend, idleDash>>

\* The mutating requests of the administrator's modals.
AdminActions ==
    {"create-officer", "activate-officer", "deactivate-officer", "delete-officer",
     "create-position", "delete-position", "delete-candidate", "delete-all-candidates",
     "import-voters", "delete-all-voters", "clear-voters-file"}

\* What a modal's handler does after its await. The answer is
\* [ok |-> TRUE, deleted |-> whether the response counts anything deleted] or
\* [ok |-> FALSE, notFound |-> .., hasVotes |-> ..] for the rejection caught.
\* The result: whether the modal first awaits its own fetchCandidates, and how
\* many times the dashboard's loadData is then called through the callbacks.
Calls(n) == [fetchCandidates |-> FALSE, loadData |-> n]
AfterFetchCandidates(n) == [fetchCandidates |-> TRUE, loadData |-> n]

CreateOfficerOnSubmit(answer) == IF answer.ok THEN Calls(1) ELSE Calls(0)
OfficerStatusChange(answer) == IF answer.ok THEN Calls(1) ELSE Calls(0)
OfficerDelete(answer) ==
    IF answer.ok THEN Calls(1)
    ELSE IF answer.notFound THEN Calls(1)
    ELSE Calls(0)
CreatePositionOnSubmit(answer) == IF answer.ok THEN Calls(1) ELSE Calls(0)
PositionDelete(answer) == IF answer.ok THEN Calls(1) ELSE Calls(0)
CandidateDelete(answer) ==
    IF answer.ok THEN AfterFetchCandidates(2)
    ELSE IF answer.notFound THEN AfterFetchCandidates(1)
    ELSE IF answer.hasVotes THEN AfterFetchCandidates(0)
    ELSE Calls(0)
CandidatesDeleteAll(answer) ==
    IF answer.ok THEN AfterFetchCandidates(2) ELSE AfterFetchCandidates(0)
ImportVotersSubmit(answer) == IF answer.ok THEN Calls(1) ELSE Calls(0)
VotersDeleteAll(answer) == IF answer.ok THEN Calls(1) ELSE Calls(0)
VotersDeleteAllOnFileClear(answer) ==
    IF answer.ok /\ answer.deleted THEN Calls(1) ELSE Calls(0)

Handler(kind, answer) ==
    CASE kind = "create-officer" -> CreateOfficerOnSubmit(answer)
      [] kind \in {"activate-officer", "deactivate-officer"} -> OfficerStatusChange(answer)
      [] kind = "delete-officer" -> OfficerDelete(answer)
      [] kind = "create-position" -> CreatePositionOnSubmit(answer)
      [] kind = "delete-position" -> PositionDelete(answer)
      [] kind = "delete-candidate" -> CandidateDelete(answer)
      [] kind = "delete-all-candidates" -> CandidatesDeleteAll(answer)
      [] kind = "import-voters" -> ImportVotersSubmit(answer)
      [] kind = "delete-all-voters" -> VotersDeleteAll(answer)
      [] kind = "clear-voters-file" -> VotersDeleteAllOnFileClear(answer)

\* What handleSubmit and handleDeleteAll of ImportVotersModal set after their
\* await; handleDeleteAllOnFileClear and the other modals' handlers set nothing
\* of it. onClose takes the modal, and its file input, off the page.
VotersModalAfter(modal, kind, ok) ==
    CASE kind = "import-voters" ->
            IF ok
            THEN [modal EXCEPT !.file = NoFiles, !.isOpen = FALSE, !.input = NoFiles,
                               !.loading = FALSE]
            ELSE [modal EXCEPT !.loading = FALSE]
      [] kind = "delete-all-voters" ->
            IF ok
            THEN [modal EXCEPT !.showDeleteConfirm = FALSE, !.deleting = FALSE]
            ELSE [modal EXCEPT !.deleting = FALSE]
      [] OTHER -> modal

\* A modal's handler has passed its own checks and sends its request.
AdminRequest(kind) ==
    /\ AdminShown
    /\ mutations < MaxAdminRequests
    /\ mutations' = mutations + 1
    /\ inFlight' = inFlight \cup {[kind |-> kind, n |-> mutations + 1, live |-> TRUE]}
    /\ sent' = [api |-> kind]
    /\ toast' = "none"
    /\ NoClicks
    /\ UNCHANGED <<routerVars, localStorage, loginTimers, nominations, dashLoading,
                   processing, rejectReason, showRejectForm, officers, stats, fetches,
                   shownFetch, backend, idleDash>>

\* The calls a handler makes once its request is settled.
Settle(req, h) ==
    IF h.fetchCandidates
    THEN /\ inFlight' = (inFlight \ {req}) \cup
                        {[kind |-> "fetchCandidates", n |-> req.n, live |-> TRUE,
                          loadData |-> h.loadData]}
         /\ sent' = [api |-> "candidates.getAll"]
         /\ UNCHANGED <<dashLoading, fetches>>
    ELSE /\ loadData(h.loadData, inFlight \ {req})
         /\ sent' = IF h.loadData > 0 THEN [api |-> "users.getAll"] ELSE NoRequest

\* A modal's handler after its await: the request succeeded.
AdminAnswered(req, deleted) ==
    /\ AdminShown
    /\ req \in inFlight
    /\ req.kind \in AdminActions /\ req.live
    /\ backend' = [backend EXCEPT !.changes = IF deleted THEN @ + 1 ELSE @]
    /\ Settle(req, Handler(req.kind, [ok |-> TRUE, deleted |-> deleted]))
    /\ importModal' = VotersModalAfter(importModal, req.kind, TRUE)
    /\ toast' = "success"
    /\ NoClicks
    /\ UNCHANGED <<routerVars, localStorage, loginTimers, nominations, processing,
                   rejectReason, showRejectForm, officers, stats, shownFetch, mutations,
                   idleModal, welcomeVars>>

\* A modal's handler after its await: the request is rejected.
AdminRejected(req, err) ==
    /\ AdminShown
    /\ req \in inFlight
    /\ req.kind \in AdminActions /\ req.live
    /\ Intercepted(err)
    /\ LET caught == ResponseInterceptor(localStorage, err).rejection
           errorMessage == IF Truthy(caught.error) THEN caught.error ELSE "Failed"
           answer == [ok |-> FALSE,
                      notFound |-> Includes(errorMessage, "not found") \/ caught.status = 404,
                      hasVotes |-> Includes(errorMessage, "has votes")]
       IN  /\ Settle(req, Handler(req.kind, answer))
           /\ toast' = errorMessage
    /\ importModal' = VotersModalAfter(importModal, req.kind, FALSE)
    /\ NoClicks
    /\ UNCHANGED <<routerVars, nominations, processing, rejectReason, showRejectForm,
                   officers, stats, shownFetch, mutations, backend, idleModal, welcomeVars>>

\* CandidatesListModal.fetchCandidates settles, either way, and the handler that
\* awaited it goes on to its callbacks.
CandidatesFetched(req) ==
    /\ AdminShown
    /\ req \in inFlight
    /\ req.kind = "fetchCandidates" /\ req.live
    /\ loadData(req.loadData, inFlight \ {req})
    /\ sent' = IF req.loadData > 0 THEN [api |-> "users.getAll"] ELSE NoRequest
    /\ toast' = "none"
    /\ NoClicks
    /\ UNCHANGED <<routerVars, localStorage, loginTimers, nominations, processing,
                   rejectReason, showRejectForm, officers, stats, shownFetch, mutations,
                   backend, idleDash>>

DashPaths == {"/officer/dashboard", "/admin/dashboard"}

\* The browser after a login of an officer or an administrator.
DashStorages ==
    {[token |-> "jwt",
      user |-> JsonItem([type |-> "object", role |-> r, status |-> "ACTIVE"]),
      ballotToken |-> Null, welcomeMessage |-> w] :
        r \in {"OFFICER", "ADMIN"}, w \in {NoItem}}

InitDash ==
    /\ path \in DashPaths
    /\ view = "pending"
    /\ hops = 0
    /\ arrival = "opened"
    /\ localStorage \in DashStorages
    /\ loginTimers = 0
    /\ lastResult = NoResult
    /\ answered = 0
    /\ InitVoting

NextDash ==
    \/ RouteRender
    \/ OfficerDashboardMount
    \/ \E req \in inFlight : BackendReads(req)
    \/ \E req \in inFlight : NominationsAnswered(req)
    \/ \E req \in inFlight, e \in OfficerErrors : NominationsRejected(req, e)
    \/ \E id \in NominationIds, accepted \in BOOLEAN : ClickApprove(id, accepted)
    \/ \E req \in inFlight : ApproveAnswered(req)
    \/ \E req \in inFlight, e \in OfficerErrors : ApproveRejected(req, e)
    \/ \E id \in NominationIds : OpenRejectForm(id)
    \/ \E id \in NominationIds, text \in ReasonTexts : TypeReason(id, text)
    \/ \E id \in NominationIds : CancelReject(id)
    \/ \E id \in NominationIds, accepted \in BOOLEAN : ClickSubmitRejection(id, accepted)
    \/ \E req \in inFlight : RejectAnswered(req)
    \/ \E req \in inFlight, e \in OfficerErrors : RejectRejected(req, e)
    \/ AdminDashboardMount
    \/ \E req \in inFlight : UsersAnswered(req)
    \/ \E req \in inFlight, e \in AdminErrors : UsersRejected(req, e)
    \/ \E req \in inFlight : StatsAnswered(req)
    \/ \E req \in inFlight, e \in AdminErrors : StatsRejected(req, e)
    \/ \E kind \in AdminActions : AdminRequest(kind)
    \/ \E req \in inFlight, deleted \in BOOLEAN : AdminAnswered(req, deleted)
    \/ \E req \in inFlight, e \in AdminErrors : AdminRejected(req, e)
    \/ \E req \in inFlight : CandidatesFetched(req)
    \/ LoginTimerFires

SpecDash == InitDash /\ [][NextDash]_vars

\* ------------------------------------------------------------------ import voters modal
\* String.prototype.endsWith
EndsWith(text, suffix) ==
    /\ Len(text) >= Len(suffix)
    /\ SubSeq(text, Len(text) - Len(suffix) + 1, Len(text)) = suffix

\* handleFileChange with the voting data kept when the input is emptied.
FileChangeKeepsData(file, files) ==
    IF files # NoFiles
    THEN LET selectedFile == files[1]
         IN  IF selectedFile.type # "text/csv" /\ ~EndsWith(selectedFile.name, DotCsv)
             THEN [file |-> file, deleteAll |-> FALSE, toast |-> "Please select a CSV file"]
             ELSE [file |-> <<selectedFile>>, deleteAll |-> FALSE, toast |-> "none"]
    ELSE [file |-> NoFiles, deleteAll |-> FALSE, toast |-> "none"]
\* handleFileChange on e.target.files: the file state it leaves, whether it
\* calls handleDeleteAllOnFileClear, and the toast it shows.
FileChange(file, files) ==
    IF files # NoFiles
    THEN LET selectedFile == files[1]
         IN  IF selectedFile.type # "text/csv" /\ ~EndsWith(selectedFile.name, DotCsv)
             THEN [file |-> file, deleteAll |-> FALSE, toast |-> "Please select a CSV file"]
             ELSE [file |-> <<selectedFile>>, deleteAll |-> FALSE, toast |-> "none"]
    ELSE [file |-> NoFiles, deleteAll |-> TRUE, toast |-> "none"]

\* What the actions of the modal leave alone.
idleImport == <<routerVars, localStorage, loginTimers, nominations, dashLoading, processing,
                rejectReason, showRejectForm, officers, stats, fetches, shownFetch, backend,
                idleModal, welcomeVars>>
\* A handler of the modal sends its request.
ModalSends(kind, request) ==
    /\ mutations < MaxAdminRequests
    /\ mutations' = mutations + 1
    /\ inFlight' = inFlight \cup {[kind |-> kind, n |-> mutations + 1, live |-> TRUE]}
    /\ sent' = request
ModalSendsNothing ==
    /\ sent' = NoRequest
    /\ UNCHANGED <<mutations, inFlight>>

\* The dashboard's Import Voters button: the modal, with an empty file input,
\* is put on the page.
OpenImportModal ==
    /\ AdminShown
    /\ ~importModal.isOpen
    /\ importModal' = [importModal EXCEPT !.isOpen = TRUE, !.input = NoFiles]
    /\ ModalSendsNothing
    /\ toast' = "none"
    /\ NoClicks
    /\ UNCHANGED idleImport

\* The file input's change event: its files have become files.
handleFileChange(files) ==
    /\ AdminShown
    /\ importModal.isOpen
    /\ files # importModal.input
    /\ LET out == FileChange(importModal.file, files)
       IN  /\ importModal' = [importModal EXCEPT !.file = out.file, !.input = files]
           /\ IF out.deleteAll
              THEN ModalSends("clear-voters-file", [api |-> "voters.deleteAll"])
              ELSE ModalSendsNothing
           /\ toast' = out.toast
    /\ NoClicks
    /\ UNCHANGED idleImport

\* The button 'Delete All Voting Data': the confirmation dialog is shown.
ShowDeleteConfirm ==
    /\ AdminShown
    /\ importModal.isOpen
    /\ ~(importModal.loading \/ importModal.deleting)
    /\ importModal' = [importModal EXCEPT !.showDeleteConfirm = TRUE]
    /\ ModalSendsNothing
    /\ toast' = "none"
    /\ NoClicks
    /\ UNCHANGED idleImport

\* The dialog's Cancel button.
CancelDeleteConfirm ==
    /\ AdminShown
    /\ importModal.isOpen
    /\ importModal.showDeleteConfirm
    /\ ~importModal.deleting
    /\ importModal' = [importModal EXCEPT !.showDeleteConfirm = FALSE]
    /\ ModalSendsNothing
    /\ toast' = "none"
    /\ NoClicks
    /\ UNCHANGED idleImport

\* The dialog's 'Yes, Delete Everything' button: handleDeleteAll up to its await.
handleDeleteAll ==
    /\ AdminShown
    /\ importModal.isOpen
    /\ importModal.showDeleteConfirm
    /\ ~importModal.deleting
    /\ importModal' = [importModal EXCEPT !.deleting = TRUE]
    /\ ModalSends("delete-all-voters", [api |-> "voters.deleteAll"])
    /\ toast' = "none"
    /\ NoClicks
    /\ UNCHANGED idleImport

\* The button 'Import Voters': handleSubmit up to its await.
ImportHandleSubmit ==
    /\ AdminShown
    /\ importModal.isOpen
    /\ ~(importModal.loading \/ importModal.file = NoFiles \/ importModal.deleting)
    /\ IF importModal.file = NoFiles
       THEN /\ toast' = "Please select a CSV file"
            /\ ModalSendsNothing
            /\ UNCHANGED importModal
       ELSE /\ importModal' = [importModal EXCEPT !.loading = TRUE]
            /\ ModalSends("import-voters",
                          [api |-> "voters.importCSV", file |-> importModal.file])
            /\ toast' = "none"
    /\ NoClicks
    /\ UNCHANGED idleImport

\* The modal's Cancel button: handleClose.
ImportHandleClose ==
    /\ AdminShown
    /\ importModal.isOpen
    /\ ~(importModal.loading \/ importModal.deleting)
    /\ importModal' = [importModal EXCEPT !.file = NoFiles, !.showDeleteConfirm = FALSE,
                                          !.isOpen = FALSE, !.input = NoFiles]
    /\ ModalSendsNothing
    /\ toast' = "none"
    /\ NoClicks
    /\ UNCHANGED idleImport

ImportErrors == {Rejection(500, "Failed", 0)}

InitImport ==
    /\ path = "/admin/dashboard"
    /\ view = "pending"
    /\ hops = 0
    /\ arrival = "opened"
    /\ localStorage = [token |-> "jwt",
                       user |-> JsonItem([type |-> "object", role |-> "ADMIN",
                                          status |-> "ACTIVE"]),
                       ballotToken |-> Null, welcomeMessage |-> NoItem]
    /\ loginTimers = 0
    /\ lastResult = NoResult
    /\ answered = 0
    /\ InitVoting

NextImport ==
    \/ RouteRender
    \/ AdminDashboardMount
    \/ \E req \in inFlight : UsersAnswered(req)
    \/ \E req \in inFlight : StatsAnswered(req)
    \/ OpenImportModal
    \/ \E files \in FileLists : handleFileChange(files)
    \/ ShowDeleteConfirm
    \/ CancelDeleteConfirm
    \/ handleDeleteAll
    \/ ImportHandleSubmit
    \/ ImportHandleClose
    \/ \E req \in inFlight, deleted \in BOOLEAN : AdminAnswered(req, deleted)
    \/ \E req \in inFlight, e \in ImportErrors : AdminRejected(req, e)

SpecImport == InitImport /\ [][NextImport]_vars

\* ------------------------------------------------------------------ password reset
ResetTokens == {"rt1", "rt2"}     \* response.resetToken of a successful verification
ResetErrors == {Rejection(400, "Invalid OTP", 0), Rejection(NoResponse, Undefined, 0)}
\* What the form hands to onSubmit.
ResetFormData == [otp : {"12345", "123456"}, newPassword : {"secret1"}]

ResetShown == view = "ResetPasswordPage"
idleReset == <<localStorage, apiVars, pageVars, verifyTimers, formErrors, loginType, regNo,
               dashState, backend, welcomeVars, served, importModal>>

\* ForgotPasswordPage is rendered at /forgot-password.
ForgotPasswordPageMount ==
    /\ path = "/forgot-password"
    /\ view = "pending"
    /\ view' = "ForgotPasswordPage"
    /\ Quiet
    /\ UNCHANGED <<path, hops, arrival, navState, inFlight, loginError, pageLoading,
                   resetVars, idleReset>>

\* ForgotPasswordPage.handleContinueToOTP with address typed in the form.
handleContinueToOTP(address) ==
    /\ view = "ForgotPasswordPage"
    /\ NavigateTo("/reset-password", address, inFlight)
    /\ Quiet
    /\ UNCHANGED <<localStorage, apiVars, pageVars, verifyTimers, dashState, backend,
                   welcomeVars, served, resetVars, importModal>>

\* The mount effect with the page kept when no email was carried.
ResetMountOutcomeStays(state) == "stay"
\* ResetPasswordPage's mount effect: which way it goes on location.state.email.
ResetMountOutcome(state) == IF Truthy(state) THEN "stay" ELSE "forgot-password"

\* ResetPasswordPage mounts at /reset-password.
ResetPasswordPageMount ==
    /\ path = "/reset-password"
    /\ view = "pending"
    /\ IF ResetMountOutcome(navState) = "stay"
       THEN /\ view' = "ResetPasswordPage"
            /\ resetEmail' = navState
            /\ UNCHANGED <<path, arrival, navState, inFlight>>
       ELSE /\ path' = "/forgot-password"
            /\ arrival' = "navigated"
            /\ navState' = Null
            /\ inFlight' = Stale(inFlight)
            /\ UNCHANGED <<view, resetEmail>>
    /\ step' = "otp"
    /\ resetToken' = EmptyString
    /\ loginError' = EmptyString
    /\ pageLoading' = FALSE
    /\ Quiet
    /\ UNCHANGED <<hops, idleReset>>

\* The form is submitted and onSubmit is called: handleVerifyOTP in step 'otp',
\* the reset request in step 'password'; each up to its await.
ResetOnSubmit(data) ==
    /\ ResetShown
    /\ ~pageLoading
    /\ IF step = "otp"
       THEN IF ~Truthy(data.otp) \/ Length(data.otp) # 6
            THEN /\ loginError' = "Please enter a valid 6-digit OTP"
                 /\ sent' = NoRequest
                 /\ UNCHANGED <<pageLoading, inFlight>>
            ELSE /\ loginError' = EmptyString
                 /\ pageLoading' = TRUE
                 /\ sent' = [api |-> "verifyResetOTP", email |-> resetEmail, otp |-> data.otp]
                 /\ inFlight' = inFlight \cup {[kind |-> "verifyResetOTP", live |-> TRUE]}
       ELSE /\ loginError' = EmptyString
            /\ pageLoading' = TRUE
            /\ sent' = [api |-> "resetPassword", resetToken |-> resetToken,
                        newPassword |-> data.newPassword]
            /\ inFlight' = inFlight \cup {[kind |-> "resetPassword", live |-> TRUE]}
    /\ NoClicks
    /\ toast' = "none"
    /\ StayOnPage
    /\ UNCHANGED <<resetVars, idleReset>>

\* handleVerifyOTP after the await: the code is accepted.
VerifyResetAnswered(req, token) ==
    /\ Rendered
    /\ req \in inFlight
    /\ req.kind = "verifyResetOTP"
    /\ inFlight' = inFlight \ {req}
    /\ toast' = "OTP verified"
    /\ IF req.live
       THEN /\ resetToken' = token
            /\ step' = "password"
            /\ pageLoading' = FALSE
       ELSE UNCHANGED <<resetToken, step, pageLoading>>
    /\ NoHistory
    /\ StayOnPage
    /\ UNCHANGED <<resetEmail, loginError, idleReset>>

\* handleVerifyOTP after the await: the code is refused (catch, finally).
VerifyResetRejected(req, err) ==
    /\ Rendered
    /\ req \in inFlight
    /\ req.kind = "verifyResetOTP"
    /\ inFlight' = inFlight \ {req}
    /\ Intercepted(err)
    /\ toast' = ErrorOr(err, "Invalid OTP code")
    /\ IF req.live
       THEN /\ loginError' = ErrorOr(err, "Invalid OTP code")
            /\ pageLoading' = FALSE
       ELSE UNCHANGED <<loginError, pageLoading>>
    /\ NoHistory
    /\ StayOnPage
    /\ UNCHANGED <<lastResult, answered, pageVars, verifyTimers, formErrors, loginType,
                   regNo, dashState, backend, welcomeVars, served, resetVars, importModal>>

\* onSubmit after the await: the password is reset, navigate('/login').
ResetAnswered(req) ==
    /\ Rendered
    /\ req \in inFlight
    /\ req.kind = "resetPassword"
    /\ toast' = "Password reset successfully"
    /\ NavigateTo("/login", Null, inFlight \ {req})
    /\ NoHistory
    /\ UNCHANGED <<localStorage, apiVars, pageVars, verifyTimers, dashState, backend,
                   welcomeVars, served, resetVars, importModal>>

\* onSubmit after the await: the reset is refused (catch, finally).
ResetRejected(req, err) ==
    /\ Rendered
    /\ req \in inFlight
    /\ req.kind = "resetPassword"
    /\ inFlight' = inFlight \ {req}
    /\ Intercepted(err)
    /\ toast' = ErrorOr(err, "Failed to reset password")
    /\ IF req.live
       THEN /\ loginError' = ErrorOr(err, "Failed to reset password")
            /\ pageLoading' = FALSE
       ELSE UNCHANGED <<loginError, pageLoading>>
    /\ NoHistory
    /\ StayOnPage
    /\ UNCHANGED <<lastResult, answered, pageVars, verifyTimers, formErrors, loginType,
                   regNo, dashState, backend, welcomeVars, served, resetVars, importModal>>

\* The link 'Request a new code' / 'Back' to /forgot-password.
ResetBackToForgot ==
    /\ ResetShown
    /\ NavigateTo("/forgot-password", Null, inFlight)
    /\ Quiet
    /\ UNCHANGED <<localStorage, apiVars, pageVars, verifyTimers, dashState, backend,
                   welcomeVars, served, resetVars, importModal>>

ResetPaths == {"/forgot-password", "/reset-password"}

InitReset ==
    /\ path \in ResetPaths
    /\ view = "pending"
    /\ hops = 0
    /\ arrival = "opened"
    /\ localStorage = [token |-> Null, user |-> NoItem, ballotToken |-> Null,
                       welcomeMessage |-> NoItem]
    /\ loginTimers = 0
    /\ lastResult = NoResult
    /\ answered = 0
    /\ InitVoting

NextReset ==
    \/ \E p \in ResetPaths : Visit(p)
    \/ ForgotPasswordPageMount
    \/ \E address \in {"a@b.c", "A@b.c"} : handleContinueToOTP(address)
    \/ ResetPasswordPageMount
    \/ \E data \in ResetFormData : ResetOnSubmit(data)
    \/ \E req \in inFlight, token \in ResetTokens : VerifyResetAnswered(req, token)
    \/ \E req \in inFlight, e \in ResetErrors : VerifyResetRejected(req, e)
    \/ \E req \in inFlight : ResetAnswered(req)
    \/ \E req \in inFlight, e \in ResetErrors : ResetRejected(req, e)
    \/ ResetBackToForgot

SpecReset == InitReset /\ [][NextReset]_vars

\* ------------------------------------------------------------------ static file server runs
InitServer ==
    /\ path = "/"
    /\ view = "pending"
    /\ hops = 0
    /\ arrival = "opened"
    /\ localStorage = [token |-> Null, user |-> NoItem, ballotToken |-> Null,
                       welcomeMessage |-> NoItem]
    /\ loginTimers = 0
    /\ lastResult = NoResult
    /\ answered = 0
    /\ InitVoting

NextServer == \E req \in Requests, files \in Dists : HandleRequest(req, files)

SpecServer == InitServer /\ [][NextServer]_vars

\* ------------------------------------------------------------------ session
\* The rendered page calls an API function: the request leaves as the request
\* interceptor returns it.
ApiRequest(call) ==
    /\ view \in {"children", "public"}
    /\ sent' = RequestInterceptor(localStorage, call, now)
    /\ dialog' = "none"
    /\ toggled' = NoToggle
    /\ toast' = "none"
    /\ UNCHANGED <<routerVars, localStorage, apiVars, pageVars, inFlight, verifyTimers,
                   loginVars, dashVars>>

SessionPaths == {"/", "/login", "/officer/dashboard", "/candidate/dashboard"}
\* Error responses to the calls of a page: the session is over, the account is
\* deactivated, a 401 that says nothing, and an error that is no 401.
SessionErrors ==
    {Rejection(401, "Token expired", 0), Rejection(401, "Account deactivated", 0),
     Rejection(401, Undefined, 0), Rejection(500, "Server error", 0)}

\* A browser that has never held a session, opening any page of the application.
InitSession ==
    /\ path \in SessionPaths
    /\ view = "pending"
    /\ hops = 0
    /\ arrival = "opened"
    /\ localStorage = [token |-> Null, user |-> NoItem, ballotToken |-> Null,
                       welcomeMessage |-> NoItem]
    /\ loginTimers = 0
    /\ lastResult = NoResult
    /\ answered = 0
    /\ InitVoting

NextSession ==
    \/ \E p \in SessionPaths : Visit(p)
    \/ RouteRender
    \/ \E data \in FormData : HomeSubmit(data)
    \/ \E data \in UserLoginData : UserLoginSubmit(data)
    \/ \E req \in inFlight, response \in LoginResponses : LoginAnswered(req, response)
    \/ \E req \in inFlight, e \in LoginErrors : LoginRejected(req, e)
    \/ \E call \in ApiCalls : ApiRequest(call)
    \/ \E e \in SessionErrors : ApiError(e)
    \/ TopBarLogout
    \/ LoginTimerFires

SpecSession == InitSession /\ [][NextSession]_vars

\* ------------------------------------------------------------------ welcome banner
\* CandidateDashboard mounts: the effect that checks the welcome record.
CandidateWelcomeEffect ==
    /\ view = "children"
    /\ path = "/candidate/dashboard"
    /\ MountWelcome(localStorage)
    /\ view' = "CandidateDashboard"
    /\ Quiet
    /\ UNCHANGED <<path, hops, arrival, navState, loginTimers, inFlight, dashState,
                   backend, now, idleMount>>

\* The banner is on the screen.
BannerShown == view \in DashboardViews /\ Truthy(welcomeMessage)

\* The banner's close button: setWelcomeMessage(null).
DismissWelcome ==
    /\ BannerShown
    /\ welcomeMessage' = Null
    /\ Quiet
    /\ UNCHANGED <<routerVars, localStorage, loginTimers, inFlight, dashState, backend,
                   now, welcomeTimers, idleMount>>

\* The callback of setTimeout(..., 10000): the banner goes, and so does the record.
WelcomeTimerFires(due) ==
    /\ Rendered
    /\ due \in welcomeTimers
    /\ due <= now
    /\ welcomeMessage' = Null
    /\ localStorage' = [localStorage EXCEPT !.welcomeMessage = NoItem]
    /\ welcomeTimers' = welcomeTimers \ {due}
    /\ Quiet
    /\ UNCHANGED <<routerVars, loginTimers, inFlight, dashState, backend, now, idleMount>>

\* Time passes while a page is on the screen, its effects run: TickSeconds of it,
\* or what is left until the next timer is due.
Tick ==
    LET dues == {due \in welcomeTimers : due <= now + TickSeconds}
        next == IF dues = {} THEN now + TickSeconds
                ELSE CHOOSE due \in dues : \A other \in dues : due <= other
    IN  /\ view \notin {"pending", "children"}
        /\ \A due \in welcomeTimers : now < due
        /\ next <= MaxClock
        /\ now' = next
        /\ Quiet
        /\ UNCHANGED <<routerVars, localStorage, loginTimers, inFlight, dashState, backend,
                       welcomeMessage, welcomeTimers, idleMount>>

\* What the key 'welcomeMessage' holds after a login at time 0, or after something
\* else wrote it: text that is no JSON, the JSON null, a record without timestamp.
WelcomeItems ==
    {JsonItem(WelcomeRecord(0)), GarbageItem, JsonItem([type |-> "null"]),
     JsonItem([type |-> "object", message |-> "Welcome back", timestamp |-> {}])}
WelcomeStorages ==
    {[token |-> "jwt",
      user |-> JsonItem([type |-> "object", role |-> r, status |-> "ACTIVE"]),
      ballotToken |-> Null, welcomeMessage |-> w] : r \in Roles, w \in WelcomeItems}
WelcomePaths == {"/login", "/officer/dashboard", "/admin/dashboard", "/candidate/dashboard"}

\* Right after a login: the login page has navigated to the user's dashboard.
InitWelcome ==
    /\ localStorage \in WelcomeStorages
    /\ path = OwnDashboard(JSONParse(localStorage.user).value.role)
    /\ view = "pending"
    /\ hops = 0
    /\ arrival = "navigated"
    /\ loginTimers = 0
    /\ lastResult = NoResult
    /\ answered = 0
    /\ InitVoting

NextWelcome ==
    \/ RouteRender
    \/ OfficerDashboardMount
    \/ AdminDashboardMount
    \/ CandidateWelcomeEffect
    \/ DismissWelcome
    \/ \E due \in welcomeTimers : WelcomeTimerFires(due)
    \/ Tick
    \/ \E p \in WelcomePaths : Visit(p)
    \/ TopBarLogout

SpecWelcome == InitWelcome /\ [][NextWelcome]_vars

\* ================================================================== claims
\* The positions of the loaded ballot, and those of them with a recorded selection.
BallotPositions == {ballotData.positions[i] : i \in 1..Len(ballotData.positions)}
SelectedPositions == {q \in BallotPositions : HasVote(votes, q)}
SubmitEnabled == ENABLED (\E confirmed \in BOOLEAN : ClickSubmit(confirmed))

\* C1: a cast-vote request is sent only by a click on Submit Vote whose confirm()
\* dialog was accepted while every position of the ballot has a selection, and
\* its payload holds exactly one (position, candidate) entry per ballot position,
\* the candidate being the one selected; a click that meets a missing selection
\* or a declined dialog sends nothing and leaves the selections, the stored
\* ballot token, the current step and the requests in flight as they were.
C1_CastOnlyCompleteAndConfirmed ==
    [][ /\ sent'.api = "castVote" =>
             /\ dialog' = "accepted"
             /\ SelectedPositions = BallotPositions
             /\ sent'.token = ballotToken
             /\ Cardinality(sent'.votes) = Cardinality(BallotPositions)
             /\ \A q \in BallotPositions :
                    {e \in sent'.votes : e.positionId = q}
                        = {[positionId |-> q, candidateId |-> votes[q]]}
        /\ dialog' \in {"declined", "not asked"} =>
             /\ sent' = NoRequest
             /\ votes' = votes
             /\ localStorage' = localStorage
             /\ currentStep' = currentStep
             /\ inFlight' = inFlight
             /\ submitting' = submitting
      ]_vars

\* C1 witness: a cast-vote request for a ballot of two positions has just been sent.
C1_Witness ==
    /\ sent.api = "castVote"
    /\ dialog = "accepted"
    /\ Cardinality(sent.votes) >= 2

\* C2 (as claimed): in every state of the wizard Submit is enabled exactly when
\* every position has a selection.
C2_Original ==
    WizardShown =>
        (SubmitEnabled <=> Cardinality(SelectedPositions) = totalPositions)

\* C2 (amended): in every state of the wizard Submit is enabled exactly when the
\* number of distinct positions with a selection equals the number of positions,
\* no submission is in progress and the current step is the last position.
C2_SubmitEnabledIff ==
    WizardShown =>
        (SubmitEnabled <=>
            /\ Cardinality(SelectedPositions) = totalPositions
            /\ ~submitting
            /\ currentStep = totalPositions - 1)

\* C2 witness: every position is selected on the last step while a cast is in
\* flight, and Submit is not enabled.
C2_Witness ==
    /\ WizardShown
    /\ totalPositions >= 2
    /\ Cardinality(SelectedPositions) = totalPositions
    /\ currentStep = totalPositions - 1
    /\ submitting
    /\ ~SubmitEnabled

\* C3: no step of the wizard moves the current step to a later position while
\* the current position has no selection.
C3_NoForwardWithoutSelection ==
    [][currentStep' > currentStep => HasVote(votes, currentPosition)]_vars

\* C4 (as claimed): two handleVoteChange(p, c) calls in succession leave p with
\* no selection, whatever p held before, and the other positions unchanged.
C4_Original ==
    toggled.n = 2 =>
        /\ ~HasVote(votes, toggled.positionId)
        /\ \A q \in (DOMAIN votes \cup DOMAIN toggled.before) \ {toggled.positionId} :
              /\ HasVote(votes, q)
              /\ HasVote(toggled.before, q)
              /\ votes[q] = toggled.before[q]

\* C4 (amended): two handleVoteChange(p, c) calls in succession leave p with no
\* selection when p did not hold c before them, and with c again when it did;
\* one call selects c when p held nothing or another candidate and clears p when
\* it held c; the other positions keep their selections in every case.
C4_ToggleTwice ==
    LET p == toggled.positionId
        c == toggled.candidateId
        b == toggled.before
        heldC == HasVote(b, p) /\ b[p] = c
        othersKept ==
            \A q \in (DOMAIN votes \cup DOMAIN b) \ {p} :
                HasVote(votes, q) /\ HasVote(b, q) /\ votes[q] = b[q]
    IN  /\ toggled.n = 2 =>
             /\ heldC => HasVote(votes, p) /\ votes[p] = c
             /\ ~heldC => ~HasVote(votes, p)
             /\ othersKept
        /\ toggled.n = 1 =>
             /\ heldC => ~HasVote(votes, p)
             /\ ~heldC => HasVote(votes, p) /\ votes[p] = c
             /\ othersKept

\* C4 witness: p held another candidate, c was clicked twice, p is empty, and
\* another position holds a selection.
C4_Witness ==
    /\ toggled.n = 2
    /\ HasVote(toggled.before, toggled.positionId)
    /\ toggled.before[toggled.positionId] # toggled.candidateId
    /\ ~HasVote(votes, toggled.positionId)
    /\ DOMAIN votes # {}

\* ------------------------------------------------------------------ route guard claims
\* The route table and the dashboards as the claims state them.
RouteRole(p) ==
    CASE p \in {"/admin/dashboard", "/admin/reports"} -> "ADMIN"
      [] p = "/officer/dashboard" -> "OFFICER"
      [] p = "/candidate/dashboard" -> "CANDIDATE"
DashboardOf(role) ==
    CASE role = "ADMIN" -> "/admin/dashboard"
      [] role = "OFFICER" -> "/officer/dashboard"
      [] role = "CANDIDATE" -> "/candidate/dashboard"

\* ProtectedRoute is about to be evaluated for the current location.
GuardRuns == view = "pending" /\ path \in ProtectedPaths
TokenStored == localStorage.token \notin {Null, EmptyString}
UserStored == localStorage.user.item \notin {"null", "empty"}
StoredObject ==
    localStorage.user.item = "json" /\ localStorage.user.value.type = "object"
StoredRole == localStorage.user.value.role
StoredStatus == localStorage.user.value.status
SessionRemoved(storage) == storage.token = Null /\ storage.user = NoItem

\* C5: when ProtectedRoute is evaluated for a protected route while local storage
\* lacks the token or the user record, the router is sent to /login and the
\* protected page is not rendered.
C5_NoSessionRedirectsToLogin ==
    [][ (GuardRuns /\ (~TokenStored \/ ~UserStored)) =>
            /\ path' = "/login"
            /\ view' = "pending"
            /\ arrival' = "redirected"
      ]_vars

\* C5 witness: a token but no user record was stored, and the guard has sent the
\* router to /login.
C5_Witness ==
    /\ path = "/login"
    /\ arrival = "redirected"
    /\ hops = 1
    /\ TokenStored
    /\ localStorage.user = NoItem

\* A stored session of a user who is not INACTIVE, with one of the three roles.
ValidSession ==
    /\ TokenStored
    /\ StoredObject
    /\ StoredRole \in Roles
    /\ StoredStatus # "INACTIVE"

\* C6: with such a session ProtectedRoute renders the page exactly when the role
\* is the route's required role; otherwise it redirects to the user's own
\* dashboard, which is a route that requires that role, so that the redirect is
\* followed by a render of the page; storage is left alone.
C6_RoleDecidesRender ==
    [][ (GuardRuns /\ ValidSession) =>
            /\ StoredRole = RouteRole(path) =>
                 /\ view' = "children"
                 /\ path' = path
            /\ StoredRole # RouteRole(path) =>
                 /\ view' = "pending"
                 /\ path' = DashboardOf(StoredRole)
                 /\ RouteRole(path') = StoredRole
            /\ hops > 0 => StoredRole = RouteRole(path)
            /\ localStorage' = localStorage
      ]_vars

\* C6 witness: a role mismatch was redirected and the user's own dashboard is
\* rendered.
C6_Witness ==
    /\ view = "children"
    /\ hops = 1
    /\ ValidSession
    /\ path = DashboardOf(StoredRole)

\* C7: an INACTIVE officer gets the account-deactivated notice on every protected
\* route and storage is left alone; while the notice is shown storage changes
\* only by removing both token and user on the way to /login; an INACTIVE user
\* of any other role is redirected to /login with token and user removed.
C7_InactiveOfficerNotice ==
    [][ /\ (GuardRuns /\ TokenStored /\ StoredObject /\ StoredStatus = "INACTIVE"
                      /\ StoredRole = "OFFICER") =>
             /\ view' = "AccountDeactivated"
             /\ path' = path
             /\ localStorage' = localStorage
        /\ (view = "AccountDeactivated" /\ localStorage' # localStorage) =>
             /\ SessionRemoved(localStorage')
             /\ path' = "/login"
             /\ arrival' = "logout"
        /\ view = "AccountDeactivated" => view' # "children"
        /\ (GuardRuns /\ TokenStored /\ StoredObject /\ StoredStatus = "INACTIVE"
                      /\ StoredRole # "OFFICER") =>
             /\ path' = "/login"
             /\ view' = "pending"
             /\ SessionRemoved(localStorage')
      ]_vars

\* C7 witness: the notice is shown to an inactive officer on an administrator's
\* route.
C7_Witness ==
    /\ view = "AccountDeactivated"
    /\ RouteRole(path) = "ADMIN"
    /\ TokenStored
    /\ StoredRole = "OFFICER"

\* The stored user value is no usable session record: not JSON, or JSON that is
\* no object carrying a role.
UnusableUser ==
    /\ UserStored
    /\ \/ localStorage.user.item # "json"
       \/ localStorage.user.value.type # "object"
       \/ localStorage.user.value.role = Undefined

\* C8: with a token stored and such a user value, ProtectedRoute redirects to
\* /login and removes both token and user from local storage.
C8_MalformedSessionCleared ==
    [][ (GuardRuns /\ TokenStored /\ UnusableUser) =>
            /\ path' = "/login"
            /\ SessionRemoved(localStorage')
      ]_vars

\* An API call has just been answered with this status and error text.
Answered(status, text) ==
    /\ answered' = answered + 1
    /\ lastResult'.error.status = status
    /\ lastResult'.error.error = text

\* C9: a 401 whose error text holds 'Token expired', 'Invalid token' or 'Invalid
\* or inactive user' removes token and user from local storage, arms the timer
\* that loads /login, and rejects the caller's promise; the page stays where it
\* is until the timer fires, and the timer's page load is of /login.
C9_ExpiredSessionTornDown ==
    [][ /\ (\E text \in {"Token expired", "Invalid token", "Invalid or inactive user"} :
                Answered(401, text)) =>
             /\ SessionRemoved(localStorage')
             /\ loginTimers' = 1
             /\ lastResult'.rejected
             /\ path' = path
             /\ view' = view
        /\ arrival' = "timer" =>
             path' = "/login"
      ]_vars

\* C9 witness: a session was stored, 'Token expired' was answered, and the timer
\* has loaded /login.
C9_Witness ==
    /\ arrival = "timer"
    /\ path = "/login"
    /\ lastResult.error = Rejection(401, "Token expired", 0)
    /\ lastResult.rejected
    /\ SessionRemoved(localStorage)

\* C10: a 401 whose error text holds 'deactivated' leaves the stored user record
\* in local storage.
C10_DeactivationKeepsUser ==
    [][ (Answered(401, "Account deactivated") /\ UserStored) =>
            localStorage'.user = localStorage.user
      ]_vars

\* ------------------------------------------------------------------ login claims
\* A login answer carries an OFFICER whose status is INACTIVE.
InactiveOfficer(response) ==
    /\ response.user.type = "object"
    /\ response.user.role = "OFFICER"
    /\ response.user.status = "INACTIVE"
\* A login answer carries both a token and a user.
CompleteAnswer(response) == response.token = "jwt" /\ response.user.type = "object"
SessionWritten(response) ==
    /\ localStorage'.token = response.token
    /\ localStorage'.user = StoredUser(response.user)
NothingWritten ==
    /\ localStorage'.token \in {localStorage.token, Null}
    /\ localStorage'.user \in {localStorage.user, NoItem}
    /\ localStorage'.welcomeMessage \in {localStorage.welcomeMessage, NoItem}
NoNavigation == path' = path /\ view' = view

\* C11 (as claimed): after a login answer, an inactive officer gets the
\* deactivation message with token and user absent and no navigation; every other
\* answer has token, user and welcome record written and navigates to the
\* dashboard of the returned role; a failed login writes nothing.
C11_Original ==
    [][ /\ \A req \in inFlight, response \in LoginResponses :
              LoginAnswered(req, response) =>
                 IF InactiveOfficer(response)
                 THEN /\ loginError' = DeactivatedMessage
                      /\ SessionRemoved(localStorage')
                      /\ NoNavigation
                 ELSE /\ SessionWritten(response)
                      /\ localStorage'.welcomeMessage # NoItem
                      /\ response.user.role \in Roles
                      /\ path' = DashboardOf(response.user.role)
        /\ \A req \in inFlight, e \in LoginErrors :
              LoginRejected(req, e) => NothingWritten
      ]_vars

\* C11 (amended): an answer lacking the token or the user shows an error and
\* leaves storage and location alone; a complete answer for an inactive officer
\* shows the deactivation message, leaves token and user absent and does not
\* navigate; any other complete answer whose user has a name or an email writes
\* token, user and welcome record and navigates to the dashboard of the role, or
\* to "/" for a role other than the three; a user with neither name nor email
\* has token and user written, no welcome record and no navigation; a failed
\* login adds nothing to local storage.
C11_LoginAnswerHandled ==
    [][ /\ \A req \in inFlight, response \in LoginResponses :
              LoginAnswered(req, response) =>
                 IF ~CompleteAnswer(response)
                 THEN /\ loginError' = "Invalid response from server"
                      /\ localStorage' = localStorage
                      /\ NoNavigation
                 ELSE IF InactiveOfficer(response)
                 THEN /\ loginError' = DeactivatedMessage
                      /\ SessionRemoved(localStorage')
                      /\ localStorage'.welcomeMessage = localStorage.welcomeMessage
                      /\ NoNavigation
                 ELSE IF response.user.named
                 THEN /\ SessionWritten(response)
                      /\ localStorage'.welcomeMessage # NoItem
                      /\ path' = IF response.user.role \in Roles
                                 THEN DashboardOf(response.user.role) ELSE "/"
                 ELSE /\ SessionWritten(response)
                      /\ localStorage'.welcomeMessage = localStorage.welcomeMessage
                      /\ loginError' # EmptyString
                      /\ NoNavigation
        /\ \A req \in inFlight, e \in LoginErrors :
              LoginRejected(req, e) => NothingWritten /\ NoNavigation
      ]_vars

\* C11 witness: a login was answered for an active officer: the session and the
\* welcome record are stored and the router is on the officer's dashboard.
C11_Witness ==
    /\ arrival = "navigated"
    /\ path = "/officer/dashboard"
    /\ localStorage.token = "jwt"
    /\ localStorage.user = JsonItem([type |-> "object", role |-> "OFFICER",
                                     status |-> "ACTIVE"])
    /\ localStorage.welcomeMessage # NoItem

\* A field is filled: it holds more than white space.
Filled(text) == text \notin {"", " ", "  "}
PasswordMode(data) == Filled(data.email) /\ Filled(data.password)
VoterMode(data) == Filled(data.regNo)
ErrorReported == formErrors' # "none" \/ loginError' # EmptyString

\* C12 (as claimed): a submission of the unified form with neither mode filled,
\* and one with both modes filled, each end in a validation error and send no
\* login request and no OTP request.
C12_Original ==
    [][ \A data \in FormData :
            (HomeSubmit(data) /\ (PasswordMode(data) <=> VoterMode(data))) =>
                /\ ErrorReported
                /\ sent' = NoRequest
      ]_vars

\* C12 (amended): a submission with neither mode filled ends in a validation
\* error and sends nothing; a submission with both modes filled is a password
\* login: one login request is sent, no OTP request, and no error is reported.
C12_UnifiedFormModes ==
    [][ \A data \in FormData :
            HomeSubmit(data) =>
                /\ (~PasswordMode(data) /\ ~VoterMode(data)) =>
                      /\ ErrorReported
                      /\ sent' = NoRequest
                      /\ inFlight' = inFlight
                /\ (PasswordMode(data) /\ VoterMode(data)) =>
                      /\ ~ErrorReported
                      /\ sent'.api = "login"
                      /\ \E req \in inFlight' \ inFlight : req.kind = "login"
                      /\ \A req \in inFlight' \ inFlight : req.kind # "requestOTP"
      ]_vars

\* C12 witness: the unified form was submitted with both modes filled and a
\* login request is awaited.
C12_Witness ==
    /\ HomeShown
    /\ sent.api = "login"
    /\ \E req \in inFlight :
          req.kind = "login" /\ PasswordMode(req.data) /\ VoterMode(req.data)

\* The registration number as the backend is to receive it.
Uppercased(text) ==
    CASE text \in {"AB1", " ab1 ", "ab1", " AB1 "} -> "AB1"
      [] OTHER -> "?"

\* C13: a submission of a filled registration number alone sends one OTP request,
\* for the trimmed and uppercased number, and no login request; the answer
\* navigates to /login/otp with that number in the navigation state; a rejection
\* leaves the location alone.
C13_RegNoAloneRequestsOtp ==
    [][ /\ \A data \in FormData :
              ((HomeSubmit(data) \/ VoterLoginSubmit(data))
                  /\ VoterMode(data) /\ ~Filled(data.email) /\ ~Filled(data.password)) =>
                 /\ sent' = [api |-> "requestOTP", regNo |-> Uppercased(data.regNo)]
                 /\ Cardinality(inFlight' \ inFlight) = 1
                 /\ \A req \in inFlight' \ inFlight : req.kind = "requestOTP"
                 /\ NoNavigation
        /\ \A req \in inFlight :
              OtpRequestAnswered(req) =>
                 /\ path' = "/login/otp"
                 /\ navState' = Uppercased(req.data.regNo)
                 /\ sent' = NoRequest
        /\ \A req \in inFlight, e \in OtpErrors :
              OtpRequestRejected(req, e) =>
                 /\ NoNavigation
                 /\ loginError' # EmptyString
                 /\ sent' = NoRequest
      ]_vars

\* C13 witness: an OTP request for a number typed in lower case with blanks
\* around it was answered, and the router is on /login/otp with "AB1".
C13_Witness ==
    /\ path = "/login/otp"
    /\ arrival = "navigated"
    /\ navState = "AB1"
    /\ toast = "OTP sent to your phone"

\* C14: on /login/otp and on /verify the ballot token is stored and the voter is
\* sent to /vote only by a confirmation answer that holds a ballot token; an
\* answer without one, and a rejection, leave the stored ballot token and the
\* location alone.
C14_BallotTokenOnlyFromAnswer ==
    [][ /\ \A req \in inFlight, t \in BallotTokens \cup {Undefined} :
              ConfirmAnswered(req, t) =>
                 IF t \in BallotTokens
                 THEN localStorage'.ballotToken = t /\ path' = "/vote"
                 ELSE localStorage' = localStorage /\ NoNavigation
        /\ \A t \in BallotTokens \cup {Undefined} :
              OtpConfirmed(t) =>
                 IF t \in BallotTokens
                 THEN localStorage'.ballotToken = t /\ path' = "/vote"
                 ELSE localStorage' = localStorage /\ NoNavigation
        /\ \A req \in inFlight, e \in OtpErrors :
              ConfirmRejected(req, e) =>
                 localStorage'.ballotToken = localStorage.ballotToken /\ NoNavigation
        /\ \A e \in OtpErrors :
              VerificationOtpRejected(e) =>
                 localStorage'.ballotToken = localStorage.ballotToken /\ NoNavigation
      ]_vars

\* C15: VoterOTPPage opened without a registration number in the navigation
\* state redirects to /login; a confirmation or resend request it sends never
\* has an empty registration number; a resend asks for the number that was
\* carried in, trimmed and uppercased.
C15_OtpPageNeedsRegNo ==
    [][ /\ (VoterOTPPageMount /\ navState \in {Null, Undefined, EmptyString}) =>
              /\ path' = "/login"
              /\ view' = "pending"
        /\ (view = "VoterOTPPage" /\ sent'.api \in {"confirmOTP", "requestOTP"}) =>
              /\ sent'.regNo \notin {"", " ", "  ", Null, Undefined}
              /\ sent'.regNo = Uppercased(navState)
        /\ (ResendOTP /\ navState \notin {Null, Undefined, EmptyString}) =>
              sent' = [api |-> "requestOTP", regNo |-> Uppercased(navState)]
      ]_vars

\* C15 witness: on VoterOTPPage, reached with "AB1" carried in, a resend has
\* just asked for an OTP for "AB1".
C15_Witness ==
    /\ view = "VoterOTPPage"
    /\ navState = "AB1"
    /\ sent.api = "requestOTP"
    /\ sent.regNo = "AB1"

\* ------------------------------------------------------------------ ballot token claims
StoredBallotTokenKept == localStorage'.ballotToken = localStorage.ballotToken
StoredBallotTokenDeleted == localStorage'.ballotToken = Null

\* C16: the stored ballot token is deleted by a cast that succeeds, by a cast
\* rejected with 400 'already used' and by a ballot load rejected with 400 or
\* 401; every other outcome of the voting page (another cast or load failure, a
\* submit with missing selections, a declined confirmation) leaves it as it was.
C16_BallotTokenDeletedExactly ==
    [][ /\ \A req \in inFlight : CastSucceeds(req) => StoredBallotTokenDeleted
        /\ \A req \in inFlight, e \in CastErrors :
              CastFails(req, e) =>
                 IF e.status = 400 /\ e.error = "Ballot token already used"
                 THEN StoredBallotTokenDeleted ELSE StoredBallotTokenKept
        /\ \A req \in inFlight, e \in LoadErrors :
              LoadFails(req, e) =>
                 IF e.status \in {400, 401}
                 THEN StoredBallotTokenDeleted ELSE StoredBallotTokenKept
        /\ \A confirmed \in BOOLEAN : ClickSubmit(confirmed) => StoredBallotTokenKept
      ]_vars

\* The voter is kept on the wizard with selections and token as they were.
KeptOnWizard ==
    /\ view' = "VotingPage"
    /\ path' = path
    /\ votes' = votes
    /\ ballotToken' = ballotToken
    /\ StoredBallotTokenKept
UsedError(e) == e.status = 400 /\ e.error = "Ballot token already used"
ClosedError(e) == e.status = 400 /\ e.error = "Positions not open for voting"

\* C17 (as claimed): a failed cast is one of three: 400 'already used' discards
\* the token and redirects to /verify; 400 'not open for voting' shows a message
\* naming the closed positions and keeps the voter on the wizard; any other
\* failure shows the server's text or the default and keeps the voter on the
\* wizard; submitting is false afterwards.
C17_Original ==
    [][ \A req \in inFlight, e \in CastErrors :
            (CastFails(req, e) /\ req.live) =>
                /\ submitting' = FALSE
                /\ IF UsedError(e)
                   THEN StoredBallotTokenDeleted /\ path' = "/verify"
                   ELSE IF ClosedError(e)
                   THEN toast' = "Voting window closed for" /\ KeptOnWizard
                   ELSE /\ toast' \in {"server error text", "Failed to cast vote"}
                        /\ KeptOnWizard
      ]_vars

\* C17 (amended): as claimed, except that the message for 'not open for voting'
\* names the closed positions only when the response lists them, and is the
\* server's error text with its hint when it lists none.
C17_CastFailureClassified ==
    [][ \A req \in inFlight, e \in CastErrors :
            (CastFails(req, e) /\ req.live) =>
                /\ submitting' = FALSE
                /\ IF UsedError(e)
                   THEN StoredBallotTokenDeleted /\ path' = "/verify"
                   ELSE IF ClosedError(e)
                   THEN /\ toast' = IF e.closedPositions > 0
                                    THEN "Voting window closed for" ELSE "error and hint"
                        /\ KeptOnWizard
                   ELSE /\ toast' = IF e.error # Undefined
                                    THEN "server error text" ELSE "Failed to cast vote"
                        /\ KeptOnWizard
      ]_vars

\* C17 witness: a cast was rejected as outside the voting window; the voter is on
\* the wizard with the selections made and may submit again.
C17_Witness ==
    /\ toast \in {"Voting window closed for", "error and hint"}
    /\ view = "VotingPage"
    /\ ~submitting
    /\ SelectedPositions = BallotPositions
    /\ BallotPositions # {}
    /\ localStorage.ballotToken # Null

RequestsOf(api, reqs) == {r \in reqs : r.kind = api}

\* C19: on a dashboard the list displayed is what the most recently issued fetch
\* returned: when the answer of a fetch arrives after the answer of a fetch
\* issued later has been displayed, the list of the later fetch stays displayed.
C19_LaterFetchDisplayed ==
    [][/\ \A req \in inFlight :
            NominationsAnswered(req) /\ req.seq < shownFetch
                => shownFetch' = shownFetch /\ nominations' = nominations
       /\ \A req \in inFlight :
            UsersAnswered(req) /\ req.seq < shownFetch
                => shownFetch' = shownFetch /\ officers' = officers]_vars

\* A re-fetch of api is issued by the step.
Refetched(api) ==
    /\ fetches' > fetches
    /\ \E r \in RequestsOf(api, inFlight') \ inFlight : r.seq = fetches' /\ r.live
\* No request of api is issued by the step.
NotRefetched(api) ==
    /\ fetches' = fetches
    /\ RequestsOf(api, inFlight') \subseteq inFlight

\* C20: every mutating dashboard action that succeeds is followed by a re-fetch of
\* the aggregate view: a successful approve or reject calls fetchNominations, and
\* a successful request of an administrator's modal calls loadData (after the
\* candidates modal has refreshed its own list, where it does so; a file-clear
\* delete-all that deleted something counts as succeeded). A failed approve or
\* reject issues no re-fetch and leaves the displayed list unchanged.
C20_MutationsRefetch ==
    [][/\ \A req \in inFlight :
            ApproveAnswered(req) \/ RejectAnswered(req) => Refetched("candidates.getAll")
       /\ \A req \in inFlight, e \in OfficerErrors :
            ApproveRejected(req, e) \/ RejectRejected(req, e)
                => NotRefetched("candidates.getAll") /\ nominations' = nominations
       /\ \A req \in inFlight, deleted \in BOOLEAN :
            AdminAnswered(req, deleted) /\ (req.kind = "clear-voters-file" => deleted)
                => \/ Refetched("users.getAll")
                   \/ \E r \in RequestsOf("fetchCandidates", inFlight') \ inFlight :
                        r.loadData > 0
       /\ \A req \in inFlight :
            CandidatesFetched(req) /\ req.loadData > 0 => Refetched("users.getAll")]_vars
\* C20 witness: an approval has succeeded and the second fetch of the nominations
\* is awaited.
C20_Witness ==
    /\ OfficerShown
    /\ toast = "Nomination approved successfully"
    /\ fetches = 2
    /\ \E r \in RequestsOf("candidates.getAll", inFlight) : r.seq = 2

\* A text with nothing but white space in it.
Blank(text) == text \in {"", " ", "  "}

\* C21: a reject request is sent only with a reason that is not blank (the
\* reasons typed in these runs have no white space around them, so the reason sent
\* is the reason typed) and only after the officer accepted the confirmation; a declined confirmation
\* sends nothing and leaves the reject form and the list as they are; a
\* successful rejection empties the stored reason of that nomination and closes
\* the reject form.
C21_RejectNeedsReason ==
    [][/\ sent'.api = "reject"
            => /\ ~Blank(rejectReason[sent'.id])
               /\ ~Blank(sent'.reason)
               /\ sent'.reason = rejectReason[sent'.id]
               /\ dialog' = "accepted"
       /\ \A id \in NominationIds :
            ClickSubmitRejection(id, FALSE)
                => /\ sent' = NoRequest
                   /\ RequestsOf("reject", inFlight') = RequestsOf("reject", inFlight)
                   /\ showRejectForm' = showRejectForm
                   /\ rejectReason' = rejectReason
                   /\ nominations' = nominations
       /\ \A req \in inFlight :
            RejectAnswered(req)
                => rejectReason'[req.id] = EmptyString /\ showRejectForm' = Null]_vars
\* C21 witness: a rejection has succeeded: its form is closed, its reason empty.
C21_Witness ==
    /\ OfficerShown
    /\ toast = "Nomination rejected successfully"
    /\ showRejectForm = Null
    /\ \E id \in NominationIds :
        backend.nominations[id] = "REJECTED" /\ rejectReason[id] = EmptyString

\* The timestamps of the record in local storage.
StoredTimestamps == Timestamp(JSONParse(localStorage.welcomeMessage).value)

\* C22: at no moment later than 10 seconds after the welcome record was written
\* is the banner on the screen, whatever mounts, reloads, navigations and
\* dismissals follow the login.
C22_BannerGoneAfterTenSeconds ==
    BannerShown => \A ts \in StoredTimestamps : now - ts <= AutoRemoveDelay

\* C23: a dashboard that mounts and finds a record that is 30 seconds old or
\* older, or one that is no JSON or has no usable timestamp, shows no banner and
\* removes the record; logout removes the record too.
C23_StaleRecordNeverShown ==
    [][/\ (/\ OfficerDashboardMount \/ AdminDashboardMount \/ CandidateWelcomeEffect
           /\ TruthyItem(localStorage.welcomeMessage)
           /\ \A ts \in StoredTimestamps : now - ts >= RecentWindow)
              => /\ ~BannerShown'
                 /\ welcomeTimers' = welcomeTimers
                 /\ localStorage'.welcomeMessage = NoItem
       /\ TopBarLogout => localStorage'.welcomeMessage = NoItem]_vars
C23_Witness ==
    /\ view = "AdminDashboard"
    /\ sent = [api |-> "users.getAll"]
    /\ arrival = "opened"
    /\ now = RecentWindow
    /\ welcomeTimers = {}
    /\ ~BannerShown
    /\ localStorage.welcomeMessage = NoItem

\* Some call made through the API client has just left.
RequestLeft == \E call \in ApiCalls : sent.api = call.api /\ sent.method = call.method

\* C24: a request leaves with 'Authorization: Bearer <token>' exactly when local
\* storage holds a token as it is sent, the token being the stored one; with a
\* _t parameter of the present time exactly when it is a GET; and with the
\* parameters of the call otherwise untouched.
C24_BearerAndTimestamp ==
    [][\A call \in ApiCalls :
          ApiRequest(call)
              => /\ sent'.Authorization # << >> <=> Truthy(localStorage.token)
                 /\ sent'.Authorization # << >>
                        => sent'.Authorization = <<"Bearer", localStorage.token>>
                 /\ "_t" \in sent'.params <=> call.method = "get"
                 /\ sent'.stamp = IF call.method = "get" THEN <<now>> ELSE << >>
                 /\ sent'.params \ {"_t"} = call.params]_vars
\* C24 witness: after a 401 has taken the session away and a later login has
\* stored a token, a GET request has left with that token and with _t.
C24_Witness ==
    /\ RequestLeft
    /\ answered > 0
    /\ lastResult.error.status = 401
    /\ sent.method = "get"
    /\ sent.Authorization = <<"Bearer", "jwt">>
    /\ "_t" \in sent.params
\* C24: after the 401 teardown a request has left without the header.
C24_WitnessNoToken ==
    /\ RequestLeft
    /\ lastResult.error.status = 401
    /\ localStorage.token = Null
    /\ sent.method = "delete"
    /\ sent.stamp = << >>
    /\ sent.Authorization = << >>
    /\ sent.params = {}

ApiRequested ==
    /\ Len(served.request.path) >= 4
    /\ served.request.path[1] = "/" /\ served.request.path[2] = "a"
    /\ served.request.path[3] = "p" /\ served.request.path[4] = "i"

\* C25: a request that is not answered with a file of the build directory by the
\* static middleware gets status 404 with a JSON error body when its path starts
\* with /api, and index.html otherwise; the catch-all never gives index.html to
\* a path that starts with /api.
C25_ApiOrIndex ==
    served.by = "fallback"
        => /\ ApiRequested
                => /\ served.response.status = 404
                   /\ served.response.kind = "json"
                   /\ served.response.error # ""
                   /\ served.response.file # IndexHtml
           /\ ~ApiRequested => served.response = FileResponse(IndexHtml)
\* C25 witness: a path that starts with /api but is not under /api/ met the catch-all.
C25_Witness ==
    /\ served.by = "fallback"
    /\ served.request.path = ApiPrefix \o <<"s">>
    /\ served.response.status = 404
\* C25: a path that is no file of the build was answered with index.html.
C25_WitnessIndex ==
    /\ served.by = "fallback"
    /\ served.request.path = <<"/", "v", "o", "t", "e">>
    /\ served.response = FileResponse(IndexHtml)

\* C26: once a cast has succeeded, no cast-vote request is sent from the wizard
\* while the redirect to /verify is awaited: Submit is not available then.
C26_NoCastAfterSuccess ==
    [][(/\ view = "VotingPage"
        /\ toast = "Vote cast successfully"
        /\ verifyTimers > 0)
            => /\ sent'.api # "castVote"
               /\ \A confirmed \in BOOLEAN : ~ClickSubmit(confirmed)]_vars

\* The positions of the loaded ballot that have no candidate.
EmptyPositions ==
    {q \in BallotPositions : \A c \in ballotData.candidates : c.position # q}

\* C29: while the loaded ballot has a position without candidates, Submit is
\* never enabled, no click on it gets as far as sending, and no cast-vote
\* request is sent, whatever the voter has selected for the other positions.
C29_EmptyPositionBlocksCast ==
    [][/\ (WizardShown' /\ EmptyPositions' # {}) => SubmitDisabled'
       /\ (WizardShown /\ EmptyPositions # {})
            => /\ sent'.api # "castVote"
               /\ \A confirmed \in BOOLEAN : ~ClickSubmit(confirmed)
               /\ EmptyPositions \cap DOMAIN votes' = {}]_vars
\* C29 witness: the voter has selected a candidate for the first position and
\* stands at the second, which has none: Submit is rendered, disabled.
C29_Witness ==
    /\ WizardShown
    /\ EmptyPositions = {2}
    /\ DOMAIN votes = {1}
    /\ currentStep = 1
    /\ SubmitRendered
    /\ SubmitDisabled

C28_WitnessRedirect ==
    /\ path = "/forgot-password"
    /\ arrival = "navigated"
    /\ navState = Null
    /\ hops = 0
    /\ view = "pending"
    /\ step = "otp"

\* This step has sent a request that deletes all voting data.
DeleteAllSent == mutations' = mutations + 1 /\ sent'.api = "voters.deleteAll"
\* A file that is a CSV file by its type or by its name.
IsCsv(f) ==
    \/ f.type = "text/csv"
    \/ /\ Len(f.name) >= 4
       /\ f.name[Len(f.name) - 3] = "." /\ f.name[Len(f.name) - 2] = "c"
       /\ f.name[Len(f.name) - 1] = "s" /\ f.name[Len(f.name)] = "v"

\* C30: in the import-voters modal a step sends a delete-all-voting-data request
\* exactly when it is the confirmation in the dialog shown or the file input
\* becoming empty, the latter whether or not the dialog is shown; the input
\* taking a CSV file sends nothing and makes it the selected file; the input
\* taking a file that is no CSV file sends nothing and leaves the selected file
\* as it was.
C30_DeleteAllOnConfirmOrFileClear ==
    [][/\ DeleteAllSent
            <=> \/ /\ importModal.isOpen /\ importModal.showDeleteConfirm
                   /\ ~importModal.deleting /\ importModal'.deleting
                \/ /\ importModal.isOpen
                   /\ importModal.input # NoFiles /\ importModal'.input = NoFiles
                   /\ importModal'.isOpen
       /\ \A f \in Files :
            (importModal.isOpen /\ importModal'.input = <<f>> /\ importModal.input # <<f>>)
                => /\ mutations' = mutations
                   /\ inFlight' = inFlight
                   /\ sent' = NoRequest
                   /\ importModal'.file = IF IsCsv(f) THEN <<f>> ELSE importModal.file]_vars
\* C30 witness: with a CSV file selected and the dialog not shown, the input was
\* emptied and the request has left, the selected file gone.
C30_Witness ==
    /\ importModal.isOpen
    /\ ~importModal.showDeleteConfirm
    /\ importModal.input = NoFiles
    /\ importModal.file = NoFiles
    /\ sent.api = "voters.deleteAll"
    /\ \E req \in inFlight : req.kind = "clear-voters-file"
\* C30: the confirmation in the dialog has sent the request.
C30_WitnessConfirm ==
    /\ importModal.showDeleteConfirm
    /\ importModal.deleting
    /\ sent.api = "voters.deleteAll"
    /\ \E req \in inFlight : req.kind = "delete-all-voters"
\* C30: a file that is no CSV file was chosen after a CSV file, which stays selected.
C30_WitnessNonCsv ==
    /\ importModal.isOpen
    /\ importModal.input = <<[name |-> <<"a", ".", "t", "x", "t">>, type |-> "text/plain"]>>
    /\ importModal.file = <<[name |-> <<"a">> \o DotCsv, type |-> ""]>>
    /\ mutations = 0
    /\ toast = "Please select a CSV file"
====
